---- MODULE Spec2Model ----
(***************************************************************************)
(* Model of the Pensar CI client (src/src/lib/ci.ts): the orchestrator     *)
(* runScan, the dispatch client dispatchScan, the status client            *)
(* getScanStatus and the polling engine pollScanStatus, run against a      *)
(* remote service that owns the scan's status.                             *)
(*                                                                         *)
(* JavaScript runs one synchronous stretch of code at a time; the model    *)
(* has one action per stretch between two suspension points (a fetch that  *)
(* is awaited, a timer that is awaited), and splits the stretch that       *)
(* follows a status response at the observer call and at the status        *)
(* checks, in the order of the source lines.                               *)
(***************************************************************************)
EXTENDS Integers, Sequences, FiniteSets, TLC

(***************************************************************************)
(* JavaScript values.  Every value carries its type tag, so that an absent *)
(* argument, null, the empty string and 0 stay different values.           *)
(***************************************************************************)
Undefined == [t |-> "undefined"]
Null == [t |-> "null"]
NaN == [t |-> "NaN"]
Str(s) == [t |-> "string", v |-> s]
Num(n) == [t |-> "number", v |-> n]
Bool(b) == [t |-> "boolean", v |-> b]
\* a string kept as the sequence of its characters, for code that scans it
Chars(cs) == [t |-> "chars", v |-> cs]

IsString(x) == x.t \in {"string", "chars"}
IsNumber(x) == x.t = "number"
IsBoolean(x) == x.t = "boolean"

\* x ?? y : y replaces only null and undefined
Nullish(x) == x.t \in {"undefined", "null"}
Coalesce(x, y) == IF Nullish(x) THEN y ELSE x

\* !x : undefined, null, the empty string, 0, NaN and false
Falsy(x) ==
    \/ x.t \in {"undefined", "null", "NaN"}
    \/ (x.t = "string" /\ x.v = "")
    \/ (x.t = "chars" /\ x.v = <<>>)
    \/ (x.t = "number" /\ x.v = 0)
    \/ (x.t = "boolean" /\ x.v = FALSE)

\* `${x}` in a template literal
Render(x) ==
    CASE x.t = "string" -> x.v
      [] x.t = "number" -> ToString(x.v)
      [] x.t = "boolean" -> IF x.v THEN "true" ELSE "false"
      [] OTHER -> x.t

\* x || y as used for the error text
OrElse(x, y) == IF Falsy(x) THEN y ELSE x

(***************************************************************************)
(* Bounds of the model.                                                    *)
(***************************************************************************)
\* the remote service reports a terminal status by its MaxPolls-th answer
MaxPolls == 3
\* the clock advances in steps of TickMs milliseconds
TickMs == 2500

(***************************************************************************)
(* Statuses and severity levels.                                           *)
(***************************************************************************)
SEVERITY_LEVELS == <<"critical", "high", "medium", "low", "info">>

StatusEnum == {"queued", "running", "completed", "failed", "paused"}
Terminal == {"completed", "failed", "paused"}
NonTerminal == StatusEnum \ Terminal

DefaultPollIntervalMs == 5000

(***************************************************************************)
(* Environment helpers.                                                    *)
(***************************************************************************)
Digits == <<"0", "1", "2", "3", "4", "5", "6", "7", "8", "9">>
IsDigit(c) == \E i \in 1..10 : Digits[i] = c
DigitVal(c) == (CHOOSE i \in 1..10 : Digits[i] = c) - 1

RECURSIVE SkipSpace(_)
SkipSpace(cs) ==
    IF cs # <<>> /\ Head(cs) = " " THEN SkipSpace(Tail(cs)) ELSE cs

RECURSIVE DigitPrefix(_, _)
DigitPrefix(cs, acc) ==
    IF cs # <<>> /\ IsDigit(Head(cs))
    THEN DigitPrefix(Tail(cs), acc * 10 + DigitVal(Head(cs)))
    ELSE acc

\* parseInt(val, 10) of a string kept as a sequence of characters
ParseInt(cs) ==
    LET s == SkipSpace(cs)
        neg == s # <<>> /\ Head(s) = "-"
        u == IF s # <<>> /\ Head(s) \in {"-", "+"} THEN Tail(s) ELSE s
    IN  IF u = <<>> \/ ~IsDigit(Head(u)) THEN NaN
        ELSE Num((IF neg THEN -1 ELSE 1) * DigitPrefix(u, 0))

\* variant: only an unset key is missing, an empty one is taken
ApiKeyMissing_OnlyUnset(e) == e.PENSAR_API_KEY = Undefined

\* getApiKeyEnvVar: the key, or a thrown configuration error
ApiKeyMissing(e) == Falsy(e.PENSAR_API_KEY)
getApiKeyEnvVar(e) == e.PENSAR_API_KEY

\* variant: an unset project id is replaced by a placeholder
getProjectIdEnvVar_Placeholder(e) ==
    IF e.PENSAR_PROJECT_ID = Undefined THEN Str("unknown")
    ELSE e.PENSAR_PROJECT_ID

getProjectIdEnvVar(e) == e.PENSAR_PROJECT_ID

getRepoIdEnvVar(e) ==
    LET val == e.GITHUB_REPOSITORY_ID
    IN  IF Falsy(val) THEN Undefined
        ELSE LET parsed == ParseInt(val.v)
             IN  IF parsed.t = "NaN" THEN Undefined ELSE parsed

getEnvironmentEnvVar(e) == Coalesce(e.PENSAR_ENVIRONMENT, Null)

\* one call of console.log, console.warn or console.error; the message is
\* the sequence of the pieces its template joins
Log(level, message) == [level |-> level, message |-> message]

\* The severity strings are kept as sequences of characters, so that
\* toLowerCase works on them character by character.
LowerCaseLetters ==
    <<"a", "b", "c", "d", "e", "f", "g", "h", "i", "j", "k", "l", "m",
     "n", "o", "p", "q", "r", "s", "t", "u", "v", "w", "x", "y", "z">>
UpperCaseLetters ==
    <<"A", "B", "C", "D", "E", "F", "G", "H", "I", "J", "K", "L", "M",
     "N", "O", "P", "Q", "R", "S", "T", "U", "V", "W", "X", "Y", "Z">>

LowerChar(c) ==
    IF \E k \in 1..26 : UpperCaseLetters[k] = c
    THEN LowerCaseLetters[CHOOSE k \in 1..26 : UpperCaseLetters[k] = c]
    ELSE c

\* String.prototype.toLowerCase
ToLowerCase(cs) == [k \in 1..Len(cs) |-> LowerChar(cs[k])]

\* the characters of a severity level
Spell(level) ==
    CASE level = "critical" -> <<"c", "r", "i", "t", "i", "c", "a", "l">>
      [] level = "high" -> <<"h", "i", "g", "h">>
      [] level = "medium" -> <<"m", "e", "d", "i", "u", "m">>
      [] level = "low" -> <<"l", "o", "w">>
      [] level = "info" -> <<"i", "n", "f", "o">>

\* the string a sequence of characters spells: a severity level, or a
\* string that is none of them
StringOf(cs) ==
    IF \E k \in 1..Len(SEVERITY_LEVELS) : Spell(SEVERITY_LEVELS[k]) = cs
    THEN SEVERITY_LEVELS[CHOOSE k \in 1..Len(SEVERITY_LEVELS) :
                            Spell(SEVERITY_LEVELS[k]) = cs]
    ELSE "(other)"

\* Array.prototype.includes
Includes(seq, x) == \E k \in 1..Len(seq) : seq[k] = x

\* Array.prototype.join, as the pieces of the joined string
RECURSIVE Join(_, _)
Join(seq, sep) ==
    IF Len(seq) <= 1 THEN seq
    ELSE <<Head(seq), sep>> \o Join(Tail(seq), sep)

\* variant: the value is compared as it is written
getErrorSeverityThresholdEnvVar_CaseSensitive(e) ==
    LET value == e.PENSAR_ERROR_SEVERITY_THRESHOLD
    IN  IF Falsy(value) THEN "critical"
        ELSE LET normalized == StringOf(value.v)
             IN  IF ~Includes(SEVERITY_LEVELS, normalized) THEN "critical"
                 ELSE normalized

getErrorSeverityThresholdEnvVar(e) ==
    LET value == e.PENSAR_ERROR_SEVERITY_THRESHOLD
    IN  IF Falsy(value) THEN "critical"
        ELSE LET normalized == StringOf(ToLowerCase(value.v))
             IN  IF ~Includes(SEVERITY_LEVELS, normalized) THEN "critical"
                 ELSE normalized

\* what getErrorSeverityThresholdEnvVar writes to the console
getErrorSeverityThresholdEnvVarWarnings(e) ==
    LET value == e.PENSAR_ERROR_SEVERITY_THRESHOLD
    IN  IF /\ ~Falsy(value)
           /\ ~Includes(SEVERITY_LEVELS, StringOf(ToLowerCase(value.v)))
        THEN <<Log("warn", <<"Invalid severity threshold \"", value,
                             "\". Valid values: ">>
                            \o Join(SEVERITY_LEVELS, ", ")
                            \o <<". Defaulting to \"critical\".">>)>>
        ELSE <<>>

\* what getApiUrl writes to the console
getApiUrlWarnings(environment) ==
    CASE environment = Str("dev") -> <<Log("warn", <<"Using dev environment">>)>>
      [] environment = Str("staging") -> <<Log("warn", <<"Using staging environment">>)>>
      [] OTHER -> <<>>

\* variant: staging is served by the production endpoint
getApiUrl_StagingIsProduction(environment) ==
    CASE environment = Str("dev") -> "https://josh-pensar-api.pensar.dev"
      [] OTHER -> "https://api.pensar.dev"

getApiUrl(environment) ==
    CASE environment = Str("dev") -> "https://josh-pensar-api.pensar.dev"
      [] environment = Str("staging") -> "https://staging-api.pensar.dev"
      [] OTHER -> "https://api.pensar.dev"

(***************************************************************************)
(* Response schemas.  A JSON body is a record of the fields the code       *)
(* looks at, an absent field being Undefined; `extra` stands for any       *)
(* field the schemas do not name.                                          *)
(***************************************************************************)
NotJson == [t |-> "notjson"]

EmptyBody ==
    [scanId |-> Undefined, label |-> Undefined, status |-> Undefined,
     startedAt |-> Undefined, completedAt |-> Undefined,
     errorMessage |-> Undefined, issuesCount |-> Undefined,
     issueCountsBySeverity |-> Undefined, reportReady |-> Undefined,
     error |-> Undefined, extra |-> Undefined]

IsOptionalString(x) == IsString(x) \/ x.t = "undefined"
IsNullableString(x) == IsString(x) \/ x.t = "null"

\* variant: the label may be of any type
DispatchScanResponseValid_AnyLabel(json) ==
    /\ IsString(json.scanId)
    /\ json.label # Undefined
    /\ IsString(json.status)

DispatchScanResponseValid(json) ==
    /\ IsString(json.scanId)
    /\ IsString(json.label)
    /\ IsString(json.status)
    /\ IsOptionalString(json.error)

\* the value dispatchScan returns
DispatchResult(json) == [scanId |-> json.scanId, label |-> json.label]

\* variant: the status may be any string
ScanStatusResponseValid_AnyStatus(json) ==
    /\ IsString(json.scanId)
    /\ IsString(json.label)
    /\ IsString(json.status)
    /\ IsNullableString(json.startedAt)
    /\ IsNullableString(json.completedAt)
    /\ IsNullableString(json.errorMessage)
    /\ IsNumber(json.issuesCount)
    /\ \/ json.issueCountsBySeverity.t = "undefined"
       \/ /\ json.issueCountsBySeverity.t = "counts"
          /\ \A k \in 1..Len(SEVERITY_LEVELS) :
                LET n == json.issueCountsBySeverity[SEVERITY_LEVELS[k]] IN
                IsNumber(n) \/ n.t = "undefined"
    /\ IsBoolean(json.reportReady)
    /\ IsOptionalString(json.error)

ScanStatusResponseValid(json) ==
    /\ IsString(json.scanId)
    /\ IsString(json.label)
    /\ IsString(json.status) /\ json.status.v \in StatusEnum
    /\ IsNullableString(json.startedAt)
    /\ IsNullableString(json.completedAt)
    /\ IsNullableString(json.errorMessage)
    /\ IsNumber(json.issuesCount)
    /\ \/ json.issueCountsBySeverity.t = "undefined"
       \/ /\ json.issueCountsBySeverity.t = "counts"
          /\ \A k \in 1..Len(SEVERITY_LEVELS) :
                LET n == json.issueCountsBySeverity[SEVERITY_LEVELS[k]] IN
                IsNumber(n) \/ n.t = "undefined"
    /\ IsBoolean(json.reportReady)
    /\ IsOptionalString(json.error)

\* z.number().default(0): an absent count is 0
CountOrDefault(n) == IF n.t = "undefined" THEN [t |-> "number", v |-> 0] ELSE n

IssueCountsParse(b) ==
    IF b.t = "undefined" THEN b
    ELSE [t |-> "counts", critical |-> CountOrDefault(b.critical),
          high |-> CountOrDefault(b.high), medium |-> CountOrDefault(b.medium),
          low |-> CountOrDefault(b.low), info |-> CountOrDefault(b.info)]

\* the parsed record: the schema's fields only, unknown fields dropped
ScanStatusParse(json) ==
    [scanId |-> json.scanId, label |-> json.label, status |-> json.status,
     startedAt |-> json.startedAt, completedAt |-> json.completedAt,
     errorMessage |-> json.errorMessage, issuesCount |-> json.issuesCount,
     issueCountsBySeverity |-> IssueCountsParse(json.issueCountsBySeverity),
     reportReady |-> json.reportReady, error |-> json.error]

(***************************************************************************)
(* getIssueCountAtOrAboveThreshold.  A breakdown is the record             *)
(* [t |-> "counts", critical |-> Num(..), ..., info |-> Num(..)].          *)
(***************************************************************************)
IssueCounts(c, h, m, l, i) ==
    [t |-> "counts", critical |-> Num(c), high |-> Num(h), medium |-> Num(m),
     low |-> Num(l), info |-> Num(i)]

\* Array.prototype.indexOf, counted from 0; -1 when x is not an element
IndexOf(seq, x) ==
    IF \E k \in 1..Len(seq) : seq[k] = x
    THEN (CHOOSE k \in 1..Len(seq) :
              seq[k] = x /\ \A j \in 1..(k - 1) : seq[j] # x) - 1
    ELSE -1

\* for (let i = from; i <= last; i++) count += issueCountsBySeverity[SEVERITY_LEVELS[i]]
RECURSIVE CountLoop(_, _, _, _)
CountLoop(issueCountsBySeverity, i, last, count) ==
    IF i <= last
    THEN CountLoop(issueCountsBySeverity, i + 1, last,
                   count + issueCountsBySeverity[SEVERITY_LEVELS[i + 1]].v)
    ELSE count

\* variant: the walk stops before the threshold level
getIssueCountAtOrAboveThreshold_Exclusive(issueCountsBySeverity, threshold) ==
    IF Falsy(issueCountsBySeverity) THEN 0
    ELSE CountLoop(issueCountsBySeverity, 0,
                   IndexOf(SEVERITY_LEVELS, threshold) - 1, 0)

\* variant: only the issues of the threshold level are counted
getIssueCountAtOrAboveThreshold_ThresholdOnly(issueCountsBySeverity, threshold) ==
    IF Falsy(issueCountsBySeverity) THEN 0
    ELSE LET thresholdIndex == IndexOf(SEVERITY_LEVELS, threshold) IN
         CountLoop(issueCountsBySeverity, thresholdIndex, thresholdIndex, 0)

getIssueCountAtOrAboveThreshold(issueCountsBySeverity, threshold) ==
    IF Falsy(issueCountsBySeverity) THEN 0
    ELSE LET thresholdIndex == IndexOf(SEVERITY_LEVELS, threshold) IN
         CountLoop(issueCountsBySeverity, 0, thresholdIndex, 0)

(***************************************************************************)
(* Errors.  A message is the sequence of the pieces its template joins.    *)
(***************************************************************************)
Err(name, message) == [name |-> name, message |-> message]

ApiKeyError == Err("Error", <<"PENSAR_API_KEY not configured">>)
NoIdentifierError ==
    Err("Error", <<"No project identifier found. Either set PENSAR_PROJECT_ID, pass --project, or run in a GitHub Actions environment (GITHUB_REPOSITORY_ID is auto-detected).">>)
DispatchParamError ==
    Err("Error", <<"Either projectId or repoId must be provided. Set PENSAR_PROJECT_ID or run in a GitHub Actions environment (GITHUB_REPOSITORY_ID).">>)
FetchRejected == Err("TypeError", <<"fetch failed">>)
JsonSyntaxError == Err("SyntaxError", <<"Unexpected token">>)
ZodError == Err("ZodError", <<"invalid response">>)
DispatchHttpError(resp) ==
    Err("Error", <<"Error dispatching pentest: ",
                   Render(OrElse(resp.body.error, Str(resp.statusText)))>>)
StatusHttpError(resp) ==
    Err("Error", <<"Error getting pentest status: ",
                   Render(OrElse(resp.body.error, Str(resp.statusText)))>>)
\* variant: the message leaves the server's text out
PentestFailedError_NoDetail(status) ==
    Err("Error", <<"Pentest failed">>)

PentestFailedError(status) ==
    Err("Error", <<"Pentest failed: ", Render(status.errorMessage)>>)
\* variant: paused is reported by the branch for failed
PentestPausedError_AsFailed == Err("Error", <<"Pentest failed: ", "null">>)

PentestPausedError == Err("Error", <<"Pentest was paused">>)

(***************************************************************************)
(* The remote service.                                                     *)
(***************************************************************************)
ScanId == "scan-001"
Label == "my-scan"

StatusBody(s, em, ic, extra) ==
    [EmptyBody EXCEPT !.scanId = Str(ScanId), !.label = Str(Label),
                      !.status = Str(s),
                      !.startedAt = IF s = "queued" THEN Null ELSE Str("2026-01-01T00:00:00Z"),
                      !.completedAt = IF s = "completed" THEN Str("2026-01-01T00:05:00Z") ELSE Null,
                      !.errorMessage = em, !.issuesCount = Num(ic),
                      !.reportReady = Bool(s = "completed"),
                      !.extra = extra]

HttpResponse(ok, statusText, body) ==
    [type |-> "response", ok |-> ok, statusText |-> statusText, body |-> body]
Rejection == [type |-> "reject"]

\* completed bodies that carry a severity breakdown: none found, two found
\* but a breakdown of zeros, two of high severity with the other keys
\* absent, two of low severity, and one critical with two medium
CompletedWithBreakdown ==
    { [StatusBody("completed", Null, 0, Undefined)
          EXCEPT !.issueCountsBySeverity = IssueCounts(0, 0, 0, 0, 0)],
      [StatusBody("completed", Null, 2, Undefined)
          EXCEPT !.issueCountsBySeverity = IssueCounts(0, 0, 0, 0, 0)],
      [StatusBody("completed", Null, 2, Undefined)
          EXCEPT !.issueCountsBySeverity =
                    [t |-> "counts", critical |-> Undefined, high |-> Num(2),
                     medium |-> Undefined, low |-> Undefined, info |-> Undefined]],
      [StatusBody("completed", Null, 2, Undefined)
          EXCEPT !.issueCountsBySeverity = IssueCounts(0, 0, 0, 2, 0)],
      [StatusBody("completed", Null, 3, Undefined)
          EXCEPT !.issueCountsBySeverity = IssueCounts(1, 0, 2, 0, 0)] }

\* bodies that describe the job truthfully while its status is s
TrueStatusBodies(s) ==
    {StatusBody(s, em, ic, ex) :
        em \in (IF s = "failed" THEN {Null, Str("Out of memory")} ELSE {Null}),
        ic \in (IF s = "completed" THEN {0, 2} ELSE {0}),
        ex \in (IF s = "running" THEN {Undefined, Str("x")} ELSE {Undefined})}
    \cup (IF s = "completed" THEN CompletedWithBreakdown ELSE {})

\* the fields of ScanStatusResponseObject that are not optional
RequiredStatusFields ==
    {"scanId", "label", "status", "startedAt", "completedAt", "errorMessage",
     "issuesCount", "reportReady"}

\* bodies that violate the status schema: a status outside the enum, and
\* each required field left out in turn
MalformedStatusBodies(s) ==
    { [StatusBody(s, Null, 0, Undefined) EXCEPT !.status = Str("cancelled")] }
    \cup { [StatusBody(s, Null, 0, Undefined) EXCEPT ![f] = Undefined] :
              f \in RequiredStatusFields }

ErrorResponses(statusText, errorText) ==
    { Rejection,
      HttpResponse(FALSE, statusText, [EmptyBody EXCEPT !.error = Str(errorText)]),
      HttpResponse(FALSE, statusText, EmptyBody),
      HttpResponse(FALSE, statusText, NotJson),
      HttpResponse(TRUE, "OK", NotJson) }

(***************************************************************************)
(* State.                                                                  *)
(***************************************************************************)
VARIABLES
    console,    \* every console.log, console.warn and console.error call, in order
    options,    \* the options of the pentest command, when the CLI was run
    exitCode,   \* the exit code of the CLI process, once it has exited
    entry,      \* the exported function that was called, or the command run
    params,     \* its arguments
    env,        \* process.env
    pc,         \* position of the call
    frame,      \* the local constants of the running call
    status,     \* pollScanStatus's local `status`
    outcome,    \* what the call returned or threw
    remote,     \* the job's status, owned by the remote service
    now,        \* the clock, in ms
    timerDue,   \* when the pending setTimeout is due
    inflight,   \* number of fetches not yet answered
    requests,   \* every request issued, in order
    responses,  \* every response received, in order
    statuses,   \* every record getScanStatus returned to the loop, in order
    observed,   \* every record passed to onStatusUpdate, in order
    delays,     \* the argument of every sleep() call, in order
    events      \* what happened, in order, with the time it happened at

vars == <<console, options, exitCode, entry, params, env, pc, frame, status, outcome, remote, now, timerDue,
          inflight, requests, responses, statuses, observed, delays, events>>

history == <<requests, responses, statuses, observed, delays, events>>

Event(e) == [e |-> e, at |-> now]

NoOutcome == [kind |-> "none"]
Returned(value) == [kind |-> "return", value |-> value]
Thrown(error) == [kind |-> "throw", error |-> error]

NoParams ==
    [apiKey |-> Undefined, projectId |-> Undefined, repoId |-> Undefined,
     branch |-> Undefined, scanLevel |-> Undefined, environment |-> Undefined,
     wait |-> Undefined, pollIntervalMs |-> Undefined,
     errorSeverityThreshold |-> Undefined,
     scanId |-> Undefined, onStatusUpdate |-> FALSE,
     issueCountsBySeverity |-> Undefined, threshold |-> Undefined]

\* process.env with nothing set; GITHUB_REPOSITORY_ID, which parseInt scans,
\* and PENSAR_ERROR_SEVERITY_THRESHOLD, which toLowerCase maps, are held as
\* Chars(<<...>>) when set, as are CI_PROJECT_ID and CI_JOB_ID of GitLab;
\* the other variables are held as Str(...)
NoEnv ==
    [PENSAR_API_KEY |-> Undefined, PENSAR_PROJECT_ID |-> Undefined,
     GITHUB_REPOSITORY_ID |-> Undefined, PENSAR_ENVIRONMENT |-> Undefined,
     PENSAR_ERROR_SEVERITY_THRESHOLD |-> Undefined,
     CI_PROJECT_ID |-> Undefined, CI_COMMIT_REF_NAME |-> Undefined,
     CI_JOB_ID |-> Undefined, CI_MERGE_REQUEST_IID |-> Undefined]

NoFrame == [fn |-> "none"]

(***************************************************************************)
(* Initial states: a call of an exported function, not yet begun.          *)
(***************************************************************************)
PollIntervals == {Undefined, Num(0), Num(100)}

PollParams ==
    {[NoParams EXCEPT !.apiKey = Str("key-123"), !.scanId = Str(ScanId),
                      !.environment = Null, !.pollIntervalMs = ms,
                      !.onStatusUpdate = cb] :
        ms \in PollIntervals, cb \in BOOLEAN}

RunParams ==
    {[NoParams EXCEPT !.apiKey = Str("key-123"), !.projectId = pid,
                      !.repoId = rid, !.wait = w, !.pollIntervalMs = ms] :
        pid \in {Undefined, Str("proj-1")}, rid \in {Undefined, Num(7)},
        w \in {Undefined, Bool(TRUE), Bool(FALSE)}, ms \in {Undefined, Num(100)}}

\* the options commander hands to the pentest action when none is given:
\* --level defaults to "full" and --no-wait makes wait true unless given
NoOptions ==
    [project |-> Undefined, repoId |-> Undefined, branch |-> Undefined,
     level |-> Str("full"), wait |-> Bool(TRUE), environment |-> Undefined,
     severity |-> Undefined]

InitWith(e, p, ev) ==
    /\ console = <<>>
    /\ options = NoOptions
    /\ exitCode = Undefined
    /\ entry = e
    /\ params = p
    /\ env = ev
    /\ pc = "start"
    /\ frame = NoFrame
    /\ status = Undefined
    /\ outcome = NoOutcome
    /\ remote = IF e = "pollScanStatus" THEN "queued" ELSE "none"
    /\ now = 0
    /\ timerDue = 0
    /\ inflight = 0
    /\ requests = <<>>
    /\ responses = <<>>
    /\ statuses = <<>>
    /\ observed = <<>>
    /\ delays = <<>>
    /\ events = <<>>

DispatchParams ==
    {[NoParams EXCEPT !.apiKey = Str("key-123"), !.projectId = pid,
                      !.repoId = rid, !.environment = e] :
        pid \in {Undefined, Str(""), Str("proj-1")},
        rid \in {Undefined, Num(0), Num(7)},
        e \in {Undefined, Str("dev")}}

\* the count a level contributes when it has any: a different power of two
\* for each level, so that a sum tells which levels went into it
SeverityWeight(level) == 2 ^ IndexOf(SEVERITY_LEVELS, level)

\* breakdowns: every subset of the levels with issues, and the breakdown
\* of a scan with 1 critical, 2 high and 3 medium issues
Breakdowns ==
    {IssueCounts(c, h, m, l, i) :
        c \in {0, SeverityWeight("critical")}, h \in {0, SeverityWeight("high")},
        m \in {0, SeverityWeight("medium")}, l \in {0, SeverityWeight("low")},
        i \in {0, SeverityWeight("info")}}
    \cup {IssueCounts(1, 2, 3, 0, 0)}

\* calls of getIssueCountAtOrAboveThreshold
CountParams ==
    {[NoParams EXCEPT !.issueCountsBySeverity = b, !.threshold = Str(t)] :
        b \in Breakdowns \cup {Undefined},
        t \in {SEVERITY_LEVELS[k] : k \in 1..Len(SEVERITY_LEVELS)}}

\* runs of `pensar pentest`: the severity given by option, by environment
\* variable, by both or by neither, in other letter case and invalid; one
\* run that does not wait, one without an API key and one without a
\* project or repository
CliRuns ==
    {<<[NoOptions EXCEPT !.project = Str("proj-1"), !.severity = sv],
       [NoEnv EXCEPT !.PENSAR_API_KEY = Str("key-123"),
                     !.PENSAR_ERROR_SEVERITY_THRESHOLD = ev]>> :
        sv \in {Undefined, Chars(<<"H", "I", "G", "H">>),
                 Chars(<<"B", "O", "G", "U", "S">>)},
        ev \in {Undefined, Chars(<<"L", "o", "w">>),
                 Chars(<<"B", "O", "G", "U", "S">>)}}
    \cup {<<[NoOptions EXCEPT !.repoId = Chars(<<"7">>), !.wait = Bool(FALSE)],
            [NoEnv EXCEPT !.PENSAR_API_KEY = Str("key-123")]>>,
          <<[NoOptions EXCEPT !.project = Str("proj-1")], NoEnv>>,
          <<NoOptions, [NoEnv EXCEPT !.PENSAR_API_KEY = Str("key-123")]>>}

CliInitWith(o, ev) ==
    /\ console = <<>>
    /\ options = o
    /\ exitCode = Undefined
    /\ entry = "pentest"
    /\ params = NoParams
    /\ env = ev
    /\ pc = "start"
    /\ frame = NoFrame
    /\ status = Undefined
    /\ outcome = NoOutcome
    /\ remote = "none"
    /\ now = 0
    /\ timerDue = 0
    /\ inflight = 0
    /\ requests = <<>>
    /\ responses = <<>>
    /\ statuses = <<>>
    /\ observed = <<>>
    /\ delays = <<>>
    /\ events = <<>>

\* every way of writing a sequence of lower-case letters in mixed case
RECURSIVE CaseVariants(_)
CaseVariants(cs) ==
    IF cs = <<>> THEN {<<>>}
    ELSE {<<c>> \o rest :
            c \in {Head(cs)} \cup {UpperCaseLetters[k] : k \in {j \in 1..26 :
                                       LowerCaseLetters[j] = Head(cs)}},
            rest \in CaseVariants(Tail(cs))}

\* values of PENSAR_ERROR_SEVERITY_THRESHOLD: unset, empty, every level in
\* every mix of case, and strings that are no level
ThresholdValues ==
    {Undefined, Chars(<<>>)}
    \cup {Chars(cs) : cs \in UNION {CaseVariants(Spell(SEVERITY_LEVELS[k])) :
                                        k \in 1..Len(SEVERITY_LEVELS)}}
    \cup {Chars(<<"b", "o", "g", "u", "s">>), Chars(<<"H", "I", "G">>),
          Chars(<<"h", "i", "g", "h", "e", "r">>), Chars(<<" ", "l", "o", "w">>),
          Chars(<<"0">>)}

\* the environment selectors: type Environment
Selectors == {Str("dev"), Str("staging"), Str("production"), Null}

\* values of PENSAR_ENVIRONMENT: unset, the three selectors, a name that is
\* no selector, and the empty string
EnvironmentValues ==
    {Undefined, Str("dev"), Str("staging"), Str("production"), Str("qa"), Str("")}

\* values of PENSAR_PROJECT_ID
ProjectIdValues == {Undefined, Str(""), Str("env-proj")}

\* values of GITHUB_REPOSITORY_ID: unset, empty, numbers, and strings with
\* characters that are no digits, at the start or after digits
RepoIdValues ==
    {Undefined, Chars(<<>>), Chars(<<"4", "2">>), Chars(<<"0">>),
     Chars(<<"a", "b", "c">>), Chars(<<"1", "2", "a", "b", "c">>),
     Chars(<<"4", ".", "5">>), Chars(<<"a", "7">>)}

\* direct calls of the functions that read one setting
SettingCalls ==
    \/ \E x \in Selectors :
          InitWith("getApiUrl", [NoParams EXCEPT !.environment = x], NoEnv)
    \/ \E v \in EnvironmentValues :
          InitWith("getEnvironmentEnvVar", NoParams,
                   [NoEnv EXCEPT !.PENSAR_ENVIRONMENT = v])
    \/ \E v \in ProjectIdValues :
          InitWith("getProjectIdEnvVar", NoParams,
                   [NoEnv EXCEPT !.PENSAR_PROJECT_ID = v])
    \/ \E v \in RepoIdValues :
          InitWith("getRepoIdEnvVar", NoParams,
                   [NoEnv EXCEPT !.GITHUB_REPOSITORY_ID = v])
    \/ \E v \in ThresholdValues :
          InitWith("getErrorSeverityThresholdEnvVar", NoParams,
                   [NoEnv EXCEPT !.PENSAR_ERROR_SEVERITY_THRESHOLD = v])

\* the variables of a GitLab job, in a merge request pipeline or not, and
\* jobs where one of those that getEnvVars requires is unset or empty
GitlabJob ==
    [NoEnv EXCEPT !.PENSAR_API_KEY = Str("key-123"),
                  !.CI_PROJECT_ID = Chars(<<"4", "2">>),
                  !.CI_COMMIT_REF_NAME = Str("main"),
                  !.CI_JOB_ID = Chars(<<"9">>)]

GitlabEnvs ==
    {GitlabJob,
     [GitlabJob EXCEPT !.CI_MERGE_REQUEST_IID = Str("5")],
     [GitlabJob EXCEPT !.PENSAR_ENVIRONMENT = Str("staging")],
     [GitlabJob EXCEPT !.PENSAR_API_KEY = Undefined],
     [GitlabJob EXCEPT !.CI_PROJECT_ID = Undefined],
     [GitlabJob EXCEPT !.CI_COMMIT_REF_NAME = Str("")],
     [GitlabJob EXCEPT !.CI_JOB_ID = Undefined]}

Init ==
    \/ \E p \in PollParams : InitWith("pollScanStatus", p, NoEnv)
    \/ \E e \in GitlabEnvs : InitWith("Gitlab.runScan", NoParams, e)
    \/ \E p \in RunParams : InitWith("runScan", p, NoEnv)
    \/ \E p \in DispatchParams : InitWith("dispatchScan", p, NoEnv)
    \/ \E p \in CountParams :
          InitWith("getIssueCountAtOrAboveThreshold", p, NoEnv)
    \/ \E r \in CliRuns : CliInitWith(r[1], r[2])
    \/ SettingCalls

\* calls of runScan over the combinations of arguments and environment
\* variables that decide what is resolved
ConfigParams ==
    {[NoParams EXCEPT !.apiKey = k, !.projectId = pid, !.repoId = rid,
                      !.environment = e, !.wait = Bool(FALSE)] :
        k \in {Undefined, Str("arg-key")},
        pid \in {Undefined, Str(""), Str("arg-proj")},
        rid \in {Undefined, Num(7)},
        e \in {Undefined, Str("dev")}}

ConfigEnvs ==
    {[NoEnv EXCEPT !.PENSAR_API_KEY = k, !.PENSAR_PROJECT_ID = pid,
                   !.GITHUB_REPOSITORY_ID = rid, !.PENSAR_ENVIRONMENT = e] :
        k \in {Undefined, Str(""), Str("env-key")},
        pid \in {Undefined, Str(""), Str("env-proj")},
        rid \in {Undefined, Chars(<<"4", "2">>), Chars(<<"a", "b", "c">>)},
        e \in {Undefined, Str("staging")}}

\* calls of runScan that wait, with the key and the selector given as
\* arguments or left to the environment
SessionParams ==
    {[NoParams EXCEPT !.apiKey = k, !.projectId = Str("proj-1"),
                      !.environment = e, !.pollIntervalMs = Num(100)] :
        k \in {Undefined, Str("arg-key")}, e \in {Undefined, Str("dev")}}

SessionEnvs ==
    {[NoEnv EXCEPT !.PENSAR_API_KEY = Str("env-key"), !.PENSAR_ENVIRONMENT = e] :
        e \in {Undefined, Str("staging")}}

SessionInit ==
    \/ Init
    \/ \E p \in SessionParams, e \in SessionEnvs : InitWith("runScan", p, e)

\* calls of runScan that differ from those of RunParams in the
\* errorSeverityThreshold only
ThresholdParams ==
    {[p EXCEPT !.errorSeverityThreshold = Str(t)] :
        p \in {q \in RunParams : q.pollIntervalMs = Num(100)},
        t \in {"critical", "info"}}

ThresholdInit ==
    \/ Init
    \/ \E p \in ThresholdParams : InitWith("runScan", p, NoEnv)

ConfigInit ==
    \/ Init
    \/ \E p \in ConfigParams, e \in ConfigEnvs : InitWith("runScan", p, e)

(***************************************************************************)
(* fetch.                                                                  *)
(***************************************************************************)
Fetch(req, e) ==
    /\ requests' = Append(requests, req)
    /\ inflight' = inflight + 1
    /\ events' = Append(events, Event(e))

Finish(o) ==
    /\ pc' = "done"
    /\ outcome' = o

(***************************************************************************)
(* runScan, up to the fetch that dispatchScan awaits.                      *)
(***************************************************************************)
\* variant: the body carries both identifiers as they were given
DispatchRequest_BothIds(p) ==
    [method |-> "POST",
     url |-> <<getApiUrl(Coalesce(p.environment, Null)), "/ci/dispatch">>,
     apiKey |-> p.apiKey,
     body |-> [projectId |-> p.projectId, repoId |-> p.repoId,
               branch |-> p.branch, scanLevel |-> p.scanLevel]]

DispatchRequest(p) ==
    [method |-> "POST",
     url |-> <<getApiUrl(Coalesce(p.environment, Null)), "/ci/dispatch">>,
     apiKey |-> p.apiKey,
     body |-> [projectId |-> IF ~Falsy(p.projectId) THEN p.projectId ELSE Undefined,
               repoId |-> IF ~Falsy(p.projectId) THEN Undefined ELSE p.repoId,
               branch |-> p.branch, scanLevel |-> p.scanLevel]]

\* `Dispatching pentest for ${identifier}...`
DispatchingMessage(r) ==
    (IF ~Falsy(r.projectId) THEN <<"Dispatching pentest for ", "project ", Render(r.projectId)>>
     ELSE <<"Dispatching pentest for ", "repo ", Render(r.repoId)>>) \o <<"...">>

\* variant: the environment wins over the arguments
Resolved_EnvFirst(p, e) ==
    [apiKey |-> Coalesce(getApiKeyEnvVar(e), p.apiKey),
     projectId |-> Coalesce(getProjectIdEnvVar(e), p.projectId),
     repoId |-> Coalesce(getRepoIdEnvVar(e), p.repoId),
     branch |-> p.branch, scanLevel |-> p.scanLevel,
     environment |-> Coalesce(e.PENSAR_ENVIRONMENT, Coalesce(p.environment, Null)),
     wait |-> Coalesce(p.wait, Bool(TRUE)),
     pollIntervalMs |-> p.pollIntervalMs]

\* variant: runScan does not wait unless it is told to
Resolved_NoWaitByDefault(p, e) ==
    [apiKey |-> Coalesce(p.apiKey, getApiKeyEnvVar(e)),
     projectId |-> Coalesce(p.projectId, getProjectIdEnvVar(e)),
     repoId |-> Coalesce(p.repoId, getRepoIdEnvVar(e)),
     branch |-> p.branch, scanLevel |-> p.scanLevel,
     environment |-> Coalesce(p.environment, getEnvironmentEnvVar(e)),
     wait |-> Coalesce(p.wait, Bool(FALSE)),
     pollIntervalMs |-> p.pollIntervalMs]

\* variant: a threshold makes runScan wait, whatever wait says
Resolved_ThresholdWaits(p, e) ==
    [apiKey |-> Coalesce(p.apiKey, getApiKeyEnvVar(e)),
     projectId |-> Coalesce(p.projectId, getProjectIdEnvVar(e)),
     repoId |-> Coalesce(p.repoId, getRepoIdEnvVar(e)),
     branch |-> p.branch, scanLevel |-> p.scanLevel,
     environment |-> Coalesce(p.environment, getEnvironmentEnvVar(e)),
     wait |-> IF p.errorSeverityThreshold # Undefined THEN Bool(TRUE)
              ELSE Coalesce(p.wait, Bool(TRUE)),
     pollIntervalMs |-> p.pollIntervalMs]

\* the parameters runScan resolves from its arguments and the environment
Resolved(p, e) ==
    [apiKey |-> Coalesce(p.apiKey, getApiKeyEnvVar(e)),
     projectId |-> Coalesce(p.projectId, getProjectIdEnvVar(e)),
     repoId |-> Coalesce(p.repoId, getRepoIdEnvVar(e)),
     branch |-> p.branch, scanLevel |-> p.scanLevel,
     environment |-> Coalesce(p.environment, getEnvironmentEnvVar(e)),
     wait |-> Coalesce(p.wait, Bool(TRUE)),
     pollIntervalMs |-> p.pollIntervalMs]

\* variant: runScan's own test of the identifiers is left out
runScan_NoIdentifierCheck ==
    /\ pc = "start" /\ entry = "runScan"
    /\ LET r == Resolved(params, env) IN
       IF Nullish(params.apiKey) /\ ApiKeyMissing(env)
       THEN /\ Finish(Thrown(ApiKeyError))
            /\ console' = console
            /\ UNCHANGED <<frame, inflight, requests, events>>
       ELSE IF Falsy(r.projectId) /\ Falsy(r.repoId)
       THEN /\ Finish(Thrown(DispatchParamError))
            /\ console' = console
            /\ UNCHANGED <<frame, inflight, requests, events>>
       ELSE /\ pc' = "dispatching"
            /\ frame' = [fn |-> "runScan", apiKey |-> r.apiKey,
                         environment |-> r.environment, wait |-> r.wait,
                         pollIntervalMs |-> r.pollIntervalMs]
            /\ console' = console \o <<Log("log", DispatchingMessage(r))>>
                            \o getApiUrlWarnings(Coalesce(r.environment, Null))
            /\ Fetch(DispatchRequest(r), "dispatch_request")
            /\ UNCHANGED outcome
    /\ UNCHANGED <<options, exitCode, entry, params, env, status, remote, now, timerDue,
                   responses, statuses, observed, delays>>

\* the call runScan(p), up to the fetch that dispatchScan awaits; out is
\* what the console holds when the call is made
runScanCall(p, out) ==
    LET r == Resolved(p, env) IN
       IF Nullish(p.apiKey) /\ ApiKeyMissing(env)
       THEN /\ Finish(Thrown(ApiKeyError))
            /\ console' = out
            /\ UNCHANGED <<frame, inflight, requests, events>>
       ELSE IF Falsy(r.projectId) /\ Falsy(r.repoId)
       THEN /\ Finish(Thrown(NoIdentifierError))
            /\ console' = out
            /\ UNCHANGED <<frame, inflight, requests, events>>
       \* dispatchScan begins: its own test of the identifiers
       ELSE IF Falsy(r.projectId) /\ Falsy(r.repoId)
       THEN /\ Finish(Thrown(DispatchParamError))
            /\ console' = out
            /\ UNCHANGED <<frame, inflight, requests, events>>
       ELSE /\ pc' = "dispatching"
            /\ frame' = [fn |-> "runScan", apiKey |-> r.apiKey,
                         environment |-> r.environment, wait |-> r.wait,
                         pollIntervalMs |-> r.pollIntervalMs]
            /\ console' = out \o <<Log("log", DispatchingMessage(r))>>
                            \o getApiUrlWarnings(Coalesce(r.environment, Null))
            /\ Fetch(DispatchRequest(r), "dispatch_request")
            /\ UNCHANGED outcome

\* a direct call of runScan
runScan ==
    /\ pc = "start" /\ entry = "runScan"
    /\ runScanCall(params, console)
    /\ UNCHANGED <<options, exitCode, entry, params, env, status, remote, now, timerDue,
                   responses, statuses, observed, delays>>

\* variant: the test of the identifiers is left out
dispatchScan_NoCheck ==
    /\ pc = "start" /\ entry = "dispatchScan"
    /\ pc' = "dispatching"
    /\ frame' = [fn |-> "dispatchScan"]
    /\ Fetch(DispatchRequest(params), "dispatch_request")
    /\ console' = console \o getApiUrlWarnings(Coalesce(params.environment, Null))
    /\ UNCHANGED outcome
    /\ UNCHANGED <<options, exitCode, entry, params, env, status, remote, now, timerDue,
                   responses, statuses, observed, delays>>

\* a direct call of dispatchScan, up to the fetch it awaits
dispatchScan ==
    /\ pc = "start" /\ entry = "dispatchScan"
    /\ IF Falsy(params.projectId) /\ Falsy(params.repoId)
       THEN /\ Finish(Thrown(DispatchParamError))
            /\ console' = console
            /\ UNCHANGED <<frame, inflight, requests, events>>
       ELSE /\ pc' = "dispatching"
            /\ frame' = [fn |-> "dispatchScan"]
            /\ Fetch(DispatchRequest(params), "dispatch_request")
            /\ console' = console \o getApiUrlWarnings(Coalesce(params.environment, Null))
            /\ UNCHANGED outcome
    /\ UNCHANGED <<options, exitCode, entry, params, env, status, remote, now, timerDue,
                   responses, statuses, observed, delays>>

(***************************************************************************)
(* The answer to the dispatch request, and runScan up to its return or to  *)
(* the loop of pollScanStatus.                                             *)
(***************************************************************************)
DispatchBody(st) ==
    [EmptyBody EXCEPT !.scanId = Str(ScanId), !.label = Str(Label),
                      !.status = Str(st)]

DispatchResponses ==
    ErrorResponses("Unauthorized", "Invalid API key")
    \cup {HttpResponse(TRUE, "OK", DispatchBody(st)) : st \in {"queued", "running"}}
    \cup {HttpResponse(TRUE, "OK", [DispatchBody("queued") EXCEPT !.scanId = Str("scan-002")])}
    \cup {HttpResponse(TRUE, "OK", [DispatchBody("queued") EXCEPT !.scanId = Undefined]),
          HttpResponse(TRUE, "OK", [DispatchBody("queued") EXCEPT !.label = Num(1)]),
          HttpResponse(TRUE, "OK", [DispatchBody("queued") EXCEPT !.status = Undefined])}

\* variant: only the identity and the status are filled in
QueuedStatus_IdentityOnly(scanId, label) ==
    [scanId |-> scanId, label |-> label, status |-> Str("queued"),
     startedAt |-> Undefined, completedAt |-> Undefined,
     errorMessage |-> Undefined, issuesCount |-> Undefined,
     issueCountsBySeverity |-> Undefined,
     reportReady |-> Undefined, error |-> Undefined]

\* the record runScan makes up when it does not wait
QueuedStatus(scanId, label) ==
    [scanId |-> scanId, label |-> label, status |-> Str("queued"),
     startedAt |-> Null, completedAt |-> Null, errorMessage |-> Null,
     issuesCount |-> Num(0), issueCountsBySeverity |-> Undefined,
     reportReady |-> Bool(FALSE), error |-> Undefined]

\* variant: the default is applied with || , which also replaces 0
PollFrame_OrDefault(p) ==
    [fn |-> "pollScanStatus", apiKey |-> p.apiKey, scanId |-> p.scanId,
     environment |-> p.environment,
     pollIntervalMs |-> OrElse(p.pollIntervalMs, Num(DefaultPollIntervalMs)),
     onStatusUpdate |-> p.onStatusUpdate]

\* pollScanStatus's parameters and the interval it computes on entry
PollFrame(p) ==
    [fn |-> "pollScanStatus", apiKey |-> p.apiKey, scanId |-> p.scanId,
     environment |-> p.environment,
     pollIntervalMs |-> Coalesce(p.pollIntervalMs, Num(DefaultPollIntervalMs)),
     onStatusUpdate |-> p.onStatusUpdate]

Receive(resp, e) ==
    /\ responses' = Append(responses, resp)
    /\ inflight' = inflight - 1
    /\ events' = Append(events, Event(e))

\* what runScan writes to the console once dispatchScan has returned
DispatchLogs(resp) ==
    IF /\ frame.fn = "runScan"
       /\ resp.type = "response" /\ resp.body # NotJson /\ resp.ok
       /\ DispatchScanResponseValid(resp.body)
    THEN <<Log("log", <<"Pentest ", Render(resp.body.label), " dispatched (ID: ",
                        Render(resp.body.scanId), ")">>)>>
         \o (IF Falsy(frame.wait) THEN <<>>
             ELSE <<Log("log", <<"Waiting for pentest to complete...">>)>>)
    ELSE <<>>

\* variant: a non-success answer to the dispatch makes runScan start over
DispatchResponse_RetryOnError ==
    /\ pc = "dispatching"
    /\ \E resp \in DispatchResponses :
        /\ Receive(resp, "dispatch_response")
        /\ console' = console \o DispatchLogs(resp)
        /\ IF resp.type = "reject"
           THEN Finish(Thrown(FetchRejected)) /\ UNCHANGED <<frame, remote>>
           ELSE IF resp.body = NotJson
           THEN Finish(Thrown(JsonSyntaxError)) /\ UNCHANGED <<frame, remote>>
           ELSE IF ~resp.ok
           THEN pc' = "start" /\ UNCHANGED <<outcome, frame, remote>>
           ELSE IF ~DispatchScanResponseValid(resp.body)
           THEN Finish(Thrown(ZodError)) /\ UNCHANGED <<frame, remote>>
           ELSE LET d == DispatchResult(resp.body) IN
                /\ remote' = resp.body.status.v
                /\ IF frame.fn = "dispatchScan"
                   THEN /\ Finish(Returned(d))
                        /\ UNCHANGED frame
                   ELSE IF Falsy(frame.wait)
                   THEN /\ Finish(Returned(QueuedStatus(d.scanId, d.label)))
                        /\ UNCHANGED frame
                   ELSE /\ pc' = "poll"
                        /\ frame' = [label |-> d.label] @@ PollFrame([apiKey |-> frame.apiKey,
                                     scanId |-> d.scanId,
                                     environment |-> frame.environment,
                                     pollIntervalMs |-> frame.pollIntervalMs,
                                     onStatusUpdate |-> FALSE])
                        /\ UNCHANGED outcome
    /\ UNCHANGED <<options, exitCode, entry, params, env, status, now, timerDue,
                   requests, statuses, observed, delays>>

DispatchResponse ==
    /\ pc = "dispatching"
    /\ \E resp \in DispatchResponses :
        /\ Receive(resp, "dispatch_response")
        /\ console' = console \o DispatchLogs(resp)
        /\ IF resp.type = "reject"
           THEN Finish(Thrown(FetchRejected)) /\ UNCHANGED <<frame, remote>>
           ELSE IF resp.body = NotJson
           THEN Finish(Thrown(JsonSyntaxError)) /\ UNCHANGED <<frame, remote>>
           ELSE IF ~resp.ok
           THEN Finish(Thrown(DispatchHttpError(resp))) /\ UNCHANGED <<frame, remote>>
           ELSE IF ~DispatchScanResponseValid(resp.body)
           THEN Finish(Thrown(ZodError)) /\ UNCHANGED <<frame, remote>>
           ELSE LET d == DispatchResult(resp.body) IN
                /\ remote' = resp.body.status.v
                /\ IF frame.fn = "dispatchScan"
                   THEN /\ Finish(Returned(d))
                        /\ UNCHANGED frame
                   ELSE IF Falsy(frame.wait)
                   THEN /\ Finish(Returned(QueuedStatus(d.scanId, d.label)))
                        /\ UNCHANGED frame
                   ELSE /\ pc' = "poll"
                        /\ frame' = [label |-> d.label] @@ PollFrame([apiKey |-> frame.apiKey,
                                     scanId |-> d.scanId,
                                     environment |-> frame.environment,
                                     pollIntervalMs |-> frame.pollIntervalMs,
                                     onStatusUpdate |-> FALSE])
                        /\ UNCHANGED outcome
    /\ UNCHANGED <<options, exitCode, entry, params, env, status, now, timerDue,
                   requests, statuses, observed, delays>>

(***************************************************************************)
(* pollScanStatus.                                                         *)
(***************************************************************************)
\* a direct call: the interval is computed, then the loop begins
pollScanStatus ==
    /\ pc = "start" /\ entry = "pollScanStatus"
    /\ frame' = PollFrame(params)
    /\ pc' = "poll"
    /\ UNCHANGED <<console, options, exitCode, entry, params, env, status, outcome, remote, now, timerDue,
                   inflight, history>>

\* variant: each status request reads the key and the selector anew
StatusRequest_ReadsEnv(f) ==
    [method |-> "GET",
     url |-> <<getApiUrl(Coalesce(params.environment, getEnvironmentEnvVar(env))),
               "/ci/status/", Render(f.scanId)>>,
     apiKey |-> Coalesce(params.apiKey, getApiKeyEnvVar(env)),
     body |-> Undefined]

StatusRequest(f) ==
    [method |-> "GET",
     url |-> <<getApiUrl(Coalesce(f.environment, Null)), "/ci/status/", Render(f.scanId)>>,
     apiKey |-> f.apiKey,
     body |-> Undefined]

\* top of the loop: getScanStatus up to the fetch it awaits
getScanStatus ==
    /\ pc = "poll"
    /\ Fetch(StatusRequest(frame), "status_request")
    /\ pc' = "awaiting"
    /\ console' = console \o getApiUrlWarnings(Coalesce(frame.environment, Null))
    /\ UNCHANGED <<options, exitCode, entry, params, env, frame, status, outcome, remote, now,
                   timerDue, responses, statuses, observed, delays>>

StatusResponses ==
    ErrorResponses("Not Found", "Scan not found")
    \cup {HttpResponse(TRUE, "OK", b) : b \in MalformedStatusBodies(remote)}
    \cup {HttpResponse(TRUE, "OK", b) :
            b \in (IF remote \in NonTerminal /\ Len(statuses) + 1 >= MaxPolls
                   THEN {} ELSE TrueStatusBodies(remote))}

\* variant: a non-success answer is swallowed and the request is repeated
StatusResponse_RetryOnError ==
    /\ pc = "awaiting"
    /\ \E resp \in StatusResponses :
        /\ Receive(resp, "status_response")
        /\ IF resp.type = "reject"
           THEN Finish(Thrown(FetchRejected)) /\ UNCHANGED <<status, statuses>>
           ELSE IF resp.body = NotJson
           THEN Finish(Thrown(JsonSyntaxError)) /\ UNCHANGED <<status, statuses>>
           ELSE IF ~resp.ok
           THEN pc' = "poll" /\ UNCHANGED <<outcome, status, statuses>>
           ELSE IF ~ScanStatusResponseValid(resp.body)
           THEN Finish(Thrown(ZodError)) /\ UNCHANGED <<status, statuses>>
           ELSE /\ status' = ScanStatusParse(resp.body)
                /\ statuses' = Append(statuses, status')
                /\ pc' = "notify"
                /\ UNCHANGED outcome
    /\ UNCHANGED <<console, options, exitCode, entry, params, env, frame, remote, now, timerDue,
                   requests, observed, delays>>

\* the answer arrives: the rest of getScanStatus
StatusResponse ==
    /\ pc = "awaiting"
    /\ \E resp \in StatusResponses :
        /\ Receive(resp, "status_response")
        /\ IF resp.type = "reject"
           THEN Finish(Thrown(FetchRejected)) /\ UNCHANGED <<status, statuses>>
           ELSE IF resp.body = NotJson
           THEN Finish(Thrown(JsonSyntaxError)) /\ UNCHANGED <<status, statuses>>
           ELSE IF ~resp.ok
           THEN Finish(Thrown(StatusHttpError(resp))) /\ UNCHANGED <<status, statuses>>
           ELSE IF ~ScanStatusResponseValid(resp.body)
           THEN Finish(Thrown(ZodError)) /\ UNCHANGED <<status, statuses>>
           ELSE /\ status' = ScanStatusParse(resp.body)
                /\ statuses' = Append(statuses, status')
                /\ pc' = "notify"
                /\ UNCHANGED outcome
    /\ UNCHANGED <<console, options, exitCode, entry, params, env, frame, remote, now, timerDue,
                   requests, observed, delays>>

\* variant: the observer is called after the terminal checks, so only for
\* the statuses that lead to a sleep
onStatusUpdate_AfterChecks ==
    /\ pc = "notify"
    /\ observed' = IF frame.onStatusUpdate /\ status.status.v \in NonTerminal
                   THEN Append(observed, status) ELSE observed
    /\ events' = IF frame.onStatusUpdate /\ status.status.v \in NonTerminal
                 THEN Append(events, Event("observe")) ELSE events
    /\ pc' = "check"
    /\ UNCHANGED <<console, options, exitCode, entry, params, env, frame, status, outcome, remote, now,
                   timerDue, inflight, requests, responses, statuses, delays>>

\* params.onStatusUpdate?.(status); the observer is the caller's function,
\* taken here to record what it is passed and to return
onStatusUpdate ==
    /\ pc = "notify"
    /\ observed' = IF frame.onStatusUpdate THEN Append(observed, status) ELSE observed
    /\ events' = IF frame.onStatusUpdate THEN Append(events, Event("observe")) ELSE events
    /\ pc' = "check"
    /\ UNCHANGED <<console, options, exitCode, entry, params, env, frame, status, outcome, remote, now,
                   timerDue, inflight, requests, responses, statuses, delays>>

\* sleep(ms), up to the timer it awaits
Sleep(ms) ==
    /\ pc' = "sleeping"
    /\ timerDue' = now + ms
    /\ delays' = Append(delays, ms)
    /\ events' = Append(events, Event("sleep"))

\* what the loop writes before it sleeps, and what runScan writes when
\* pollScanStatus has returned to it; pollIntervalMs / 1000 is kept as the
\* two pieces of the quotient
CheckStatusLogs ==
    IF status.status.v \in NonTerminal
    THEN <<Log("log", <<"Pentest ", Render(status.label), " status: ",
                        Render(status.status), ". Polling again in ",
                        Render(frame.pollIntervalMs), "/1000", "s...">>)>>
    ELSE IF status.status = Str("completed") /\ "label" \in DOMAIN frame
    THEN <<Log("log", <<"Pentest ", Render(frame.label), " completed with ",
                        Render(status.issuesCount), " issues">>)>>
    ELSE <<>>

\* variant: the success status is compared with "done", its former name
CheckStatus_DoneNotCompleted ==
    /\ pc = "check"
    /\ console' = console \o CheckStatusLogs
    /\ IF status.status = Str("failed")
       THEN Finish(Thrown(PentestFailedError(status)))
            /\ UNCHANGED <<timerDue, delays, events>>
       ELSE IF status.status = Str("done")
       THEN Finish(Returned(status))
            /\ UNCHANGED <<timerDue, delays, events>>
       ELSE IF status.status = Str("paused")
       THEN Finish(Thrown(PentestPausedError))
            /\ UNCHANGED <<timerDue, delays, events>>
       ELSE Sleep(frame.pollIntervalMs.v) /\ UNCHANGED outcome
    /\ UNCHANGED <<options, exitCode, entry, params, env, frame, status, remote, now, inflight,
                   requests, responses, statuses, observed>>

\* variant: the loop sleeps only while the scan is running
CheckStatus_SleepOnlyRunning ==
    /\ pc = "check"
    /\ console' = console \o CheckStatusLogs
    /\ IF status.status = Str("failed")
       THEN Finish(Thrown(PentestFailedError(status)))
            /\ UNCHANGED <<timerDue, delays, events>>
       ELSE IF status.status = Str("completed")
       THEN Finish(Returned(status))
            /\ UNCHANGED <<timerDue, delays, events>>
       ELSE IF status.status = Str("paused")
       THEN Finish(Thrown(PentestPausedError))
            /\ UNCHANGED <<timerDue, delays, events>>
       ELSE IF status.status = Str("running")
       THEN Sleep(frame.pollIntervalMs.v) /\ UNCHANGED outcome
       ELSE pc' = "poll" /\ UNCHANGED <<outcome, timerDue, delays, events>>
    /\ UNCHANGED <<options, exitCode, entry, params, env, frame, status, remote, now, inflight,
                   requests, responses, statuses, observed>>

\* variant: the loop gives up after two statuses that are not terminal
CheckStatus_MaxAttempts ==
    /\ pc = "check"
    /\ console' = console \o CheckStatusLogs
    /\ IF status.status = Str("failed")
       THEN Finish(Thrown(PentestFailedError(status)))
            /\ UNCHANGED <<timerDue, delays, events>>
       ELSE IF status.status = Str("completed")
       THEN Finish(Returned(status))
            /\ UNCHANGED <<timerDue, delays, events>>
       ELSE IF status.status = Str("paused")
       THEN Finish(Thrown(PentestPausedError))
            /\ UNCHANGED <<timerDue, delays, events>>
       ELSE IF Len(statuses) >= 2
       THEN Finish(Thrown(Err("Error", <<"Pentest timed out">>)))
            /\ UNCHANGED <<timerDue, delays, events>>
       ELSE Sleep(frame.pollIntervalMs.v) /\ UNCHANGED outcome
    /\ UNCHANGED <<options, exitCode, entry, params, env, frame, status, remote, now, inflight,
                   requests, responses, statuses, observed>>

\* variant: every terminal status is returned, none is an error
CheckStatus_ReturnsTerminal ==
    /\ pc = "check"
    /\ console' = console \o CheckStatusLogs
    /\ IF status.status.v \in Terminal
       THEN Finish(Returned(status))
            /\ UNCHANGED <<timerDue, delays, events>>
       ELSE Sleep(frame.pollIntervalMs.v) /\ UNCHANGED outcome
    /\ UNCHANGED <<options, exitCode, entry, params, env, frame, status, remote, now, inflight,
                   requests, responses, statuses, observed>>

\* the three status checks, then the sleep
CheckStatus ==
    /\ pc = "check"
    /\ console' = console \o CheckStatusLogs
    /\ IF status.status = Str("failed")
       THEN Finish(Thrown(PentestFailedError(status)))
            /\ UNCHANGED <<timerDue, delays, events>>
       ELSE IF status.status = Str("completed")
       THEN Finish(Returned(status))
            /\ UNCHANGED <<timerDue, delays, events>>
       ELSE IF status.status = Str("paused")
       THEN Finish(Thrown(PentestPausedError))
            /\ UNCHANGED <<timerDue, delays, events>>
       ELSE Sleep(frame.pollIntervalMs.v) /\ UNCHANGED outcome
    /\ UNCHANGED <<options, exitCode, entry, params, env, frame, status, remote, now, inflight,
                   requests, responses, statuses, observed>>

\* variant: setTimeout is never given the resolver, the sleep never ends
SleepResolve_Never ==
    /\ pc = "sleeping"
    /\ FALSE
    /\ UNCHANGED vars

\* variant: the resolver is called when the timer is set, not when it fires
SleepResolve_AtOnce ==
    /\ pc = "sleeping"
    /\ pc' = "poll"
    /\ events' = Append(events, Event("wake"))
    /\ UNCHANGED <<console, options, exitCode, entry, params, env, frame, status, outcome, remote, now,
                   timerDue, inflight, requests, responses, statuses, observed,
                   delays>>

\* the timer fires and the loop goes round
SleepResolve ==
    /\ pc = "sleeping"
    /\ now >= timerDue
    /\ pc' = "poll"
    /\ events' = Append(events, Event("wake"))
    /\ UNCHANGED <<console, options, exitCode, entry, params, env, frame, status, outcome, remote, now,
                   timerDue, inflight, requests, responses, statuses, observed,
                   delays>>

(***************************************************************************)
(* The surroundings: time passes, the job advances.                        *)
(***************************************************************************)
Tick ==
    /\ pc = "sleeping"
    /\ now < timerDue
    /\ now' = now + TickMs
    /\ UNCHANGED <<console, options, exitCode, entry, params, env, pc, frame, status, outcome, remote,
                   timerDue, inflight, history>>

RemoteNext(s) ==
    CASE s = "queued" -> {"running", "failed"}
      [] s = "running" -> {"completed", "failed", "paused"}
      [] s = "paused" -> {"running"}
      [] OTHER -> {}

RemoteAdvance ==
    /\ pc # "done"
    /\ \E s \in RemoteNext(remote) : remote' = s
    /\ UNCHANGED <<console, options, exitCode, entry, params, env, pc, frame, status, outcome, now,
                   timerDue, inflight, history>>

(***************************************************************************)
(* A direct call of getIssueCountAtOrAboveThreshold.                       *)
(***************************************************************************)
CountIssues ==
    /\ pc = "start" /\ entry = "getIssueCountAtOrAboveThreshold"
    /\ Finish(Returned(Num(getIssueCountAtOrAboveThreshold(
                              params.issueCountsBySeverity, params.threshold.v))))
    /\ UNCHANGED <<console, options, exitCode, entry, params, env, frame, status, remote, now, timerDue,
                   inflight, history>>

(***************************************************************************)
(* A direct call of getErrorSeverityThresholdEnvVar.                       *)
(***************************************************************************)
ThresholdFromEnv ==
    /\ pc = "start" /\ entry = "getErrorSeverityThresholdEnvVar"
    /\ console' = console \o getErrorSeverityThresholdEnvVarWarnings(env)
    /\ Finish(Returned(Str(getErrorSeverityThresholdEnvVar(env))))
    /\ UNCHANGED <<options, exitCode, entry, params, env, frame, status, remote,
                   now, timerDue, inflight, history>>

(***************************************************************************)
(* Direct calls of getApiUrl, getEnvironmentEnvVar, getProjectIdEnvVar and *)
(* getRepoIdEnvVar.                                                        *)
(***************************************************************************)
ApiUrl ==
    /\ pc = "start" /\ entry = "getApiUrl"
    /\ console' = console \o getApiUrlWarnings(params.environment)
    /\ Finish(Returned(Str(getApiUrl(params.environment))))
    /\ UNCHANGED <<options, exitCode, entry, params, env, frame, status, remote,
                   now, timerDue, inflight, history>>

EnvironmentFromEnv ==
    /\ pc = "start" /\ entry = "getEnvironmentEnvVar"
    /\ Finish(Returned(getEnvironmentEnvVar(env)))
    /\ UNCHANGED <<console, options, exitCode, entry, params, env, frame, status,
                   remote, now, timerDue, inflight, history>>

ProjectIdFromEnv ==
    /\ pc = "start" /\ entry = "getProjectIdEnvVar"
    /\ Finish(Returned(getProjectIdEnvVar(env)))
    /\ UNCHANGED <<console, options, exitCode, entry, params, env, frame, status,
                   remote, now, timerDue, inflight, history>>

RepoIdFromEnv ==
    /\ pc = "start" /\ entry = "getRepoIdEnvVar"
    /\ Finish(Returned(getRepoIdEnvVar(env)))
    /\ UNCHANGED <<console, options, exitCode, entry, params, env, frame, status,
                   remote, now, timerDue, inflight, history>>

(***************************************************************************)
(* The GitLab adapter.  It calls CI.postDispatchScan, CI.pollScanStatus    *)
(* with the result { status } and CI.getScanIssues: the functions of the   *)
(* former ci module.  The present module exports no postDispatchScan, so   *)
(* with it the first call fails with a TypeError.  A call here either      *)
(* fails or returns what the former function returns.                      *)
(***************************************************************************)
\* the error getEnvVars throws, Undefined when it throws none
getEnvVarsError(e) ==
    IF ApiKeyMissing(e) THEN ApiKeyError
    ELSE IF Falsy(e.CI_PROJECT_ID)
    THEN Err("Error", <<"CI_PROJECT_ID unavaiable">>)
    ELSE IF Falsy(e.CI_COMMIT_REF_NAME)
    THEN Err("Error", <<"COMMIT_REF_NAME unavailable">>)
    ELSE IF Falsy(e.CI_JOB_ID)
    THEN Err("Error", <<"CI_PIPELINE_ID unavailable">>)
    ELSE Undefined

\* what getEnvVars returns when it throws nothing
getEnvVars(e) ==
    [apiKey |-> getApiKeyEnvVar(e),
     repoId |-> ParseInt(e.CI_PROJECT_ID.v),
     targetBranch |-> e.CI_COMMIT_REF_NAME,
     actionRunId |-> ParseInt(e.CI_JOB_ID.v),
     pullRequest |-> IF Falsy(e.CI_MERGE_REQUEST_IID) THEN Null
                     ELSE e.CI_MERGE_REQUEST_IID,
     environment |-> getEnvironmentEnvVar(e)]

\* how a call of CI.postDispatchScan ends: with the scan id, with the error
\* of a refused dispatch, or, the function being absent, with a TypeError
PostDispatchScanOutcomes ==
    {Returned([scanId |-> Str(ScanId)]),
     Thrown(Err("Error", <<"Error dispatching scan ", "Unauthorized">>)),
     Thrown(Err("TypeError", <<"CI.postDispatchScan is not a function">>))}

\* how a call of CI.pollScanStatus ends: done, or the error of a scan that
\* ended in error
PollScanStatusOutcomes ==
    {Returned([status |-> Str("done")]),
     Thrown(Err("Error", <<"Error occurent during scan: ", "crashed">>))}

\* how a call of CI.getScanIssues ends: the issues, or an error
MaxIssues == 2

GetScanIssuesOutcomes ==
    {Returned([issues |-> Num(n)]) : n \in 0..MaxIssues}
    \cup {Thrown(Err("Error", <<"Error getting scan status}">>))}

GitlabScans ==
    [dispatch : PostDispatchScanOutcomes, poll : PollScanStatusOutcomes,
     issues : GetScanIssuesOutcomes]

\* the error thrown inside the try block, Undefined when it runs to its end
GitlabTryError(e, scan) ==
    IF getEnvVarsError(e) # Undefined THEN getEnvVarsError(e)
    ELSE IF scan.dispatch.kind = "throw" THEN scan.dispatch.error
    ELSE IF scan.poll.kind = "throw" THEN scan.poll.error
    ELSE IF scan.poll.value.status # Str("done") THEN Undefined
    ELSE IF scan.issues.kind = "throw" THEN scan.issues.error
    ELSE IF scan.issues.value.issues.v > 0
    THEN Err("Error", <<"Scan completed. ", Render(scan.issues.value.issues),
                        " issues found">>)
    ELSE Undefined

\* the issues the scan was found to have, Undefined when the try block did
\* not come to know them
GitlabIssues(e, scan) ==
    IF /\ getEnvVarsError(e) = Undefined
       /\ scan.dispatch.kind = "return" /\ scan.poll.kind = "return"
       /\ scan.poll.value.status = Str("done") /\ scan.issues.kind = "return"
    THEN scan.issues.value.issues
    ELSE Undefined

\* Gitlab.runScan: the try block and its catch, which writes the error to
\* the console and lets the function return
Gitlab_runScan ==
    /\ pc = "start" /\ entry = "Gitlab.runScan"
    /\ \E scan \in GitlabScans :
        LET error == GitlabTryError(env, scan)
            issues == GitlabIssues(env, scan)
        IN  /\ frame' = [fn |-> "Gitlab.runScan",
                         envVars |-> IF getEnvVarsError(env) = Undefined
                                     THEN getEnvVars(env) ELSE Undefined,
                         caught |-> error, issues |-> issues]
            /\ console' = console \o
                   (IF error # Undefined
                    THEN <<Log("error", <<error.name>> \o error.message)>>
                    ELSE IF issues = Num(0)
                    THEN <<Log("log", <<"Scan completed. No issues found">>)>>
                    ELSE <<>>)
            /\ Finish(Returned(Undefined))
    /\ UNCHANGED <<options, exitCode, entry, params, env, status, remote, now,
                   timerDue, inflight, history>>

(***************************************************************************)
(* The pentest command of the CLI.                                         *)
(***************************************************************************)
\* the threshold the action computes from --severity and the environment
SeverityThreshold(o, e) ==
    IF ~Falsy(o.severity) THEN StringOf(ToLowerCase(o.severity.v))
    ELSE getErrorSeverityThresholdEnvVar(e)

\* what computing the threshold writes to the console
SeverityThresholdWarnings(o, e) ==
    IF ~Falsy(o.severity) THEN <<>>
    ELSE getErrorSeverityThresholdEnvVarWarnings(e)

\* the arguments the action passes to runScan
CliRunParams(o, e) ==
    [NoParams EXCEPT !.projectId = o.project,
                     !.repoId = IF ~Falsy(o.repoId) THEN ParseInt(o.repoId.v)
                                ELSE Undefined,
                     !.branch = o.branch, !.scanLevel = o.level,
                     !.wait = o.wait, !.environment = o.environment,
                     !.errorSeverityThreshold = Str(SeverityThreshold(o, e))]

\* process.exit(code)
Exit(code) ==
    /\ exitCode' = Num(code)
    /\ pc' = "done"

\* variant: the value of --severity is not validated
pentest_SeverityNotValidated ==
    /\ pc = "start" /\ entry = "pentest"
    /\ params' = CliRunParams(options, env)
    /\ runScanCall(params', console \o SeverityThresholdWarnings(options, env))
    /\ UNCHANGED exitCode
    /\ UNCHANGED <<options, entry, env, status, remote, now, timerDue,
                   responses, statuses, observed, delays>>

\* the action, up to the fetch awaited inside runScan
pentest ==
    /\ pc = "start" /\ entry = "pentest"
    /\ IF /\ ~Falsy(options.severity)
          /\ ~Includes(SEVERITY_LEVELS, SeverityThreshold(options, env))
       THEN /\ console' = console \o
                   <<Log("error", <<"Invalid severity threshold \"",
                                    options.severity, "\". Valid values: ">>
                                  \o Join(SEVERITY_LEVELS, ", "))>>
            /\ Exit(1)
            /\ UNCHANGED <<params, frame, outcome, inflight, requests, events>>
       ELSE /\ params' = CliRunParams(options, env)
            /\ runScanCall(params', console \o SeverityThresholdWarnings(options, env))
            /\ UNCHANGED exitCode
    /\ UNCHANGED <<options, entry, env, status, remote, now, timerDue,
                   responses, statuses, observed, delays>>

\* the lines of the issue breakdown: the levels that have issues
BreakdownLines(issueCountsBySeverity) ==
    LET levels == SelectSeq(SEVERITY_LEVELS,
                            LAMBDA level : issueCountsBySeverity[level].v > 0)
    IN  [k \in 1..Len(levels) |->
            Log("error", <<"    ", levels[k], ": ",
                           Render(issueCountsBySeverity[levels[k]])>>)]

\* what the action writes to the console once runScan has returned; the
\* leading newline and mark of the messages are left out
PentestReport(result, severityThreshold) ==
    IF result.status # Str("completed") THEN <<>>
    ELSE LET issuesAtThreshold ==
                 getIssueCountAtOrAboveThreshold(result.issueCountsBySeverity,
                                                 severityThreshold)
         IN  IF issuesAtThreshold > 0
             THEN <<Log("error", <<"Pentest found ", ToString(issuesAtThreshold),
                                   " security issue(s) at severity \"",
                                   severityThreshold, "\" or higher">>)>>
                  \o (IF ~Falsy(result.issueCountsBySeverity)
                      THEN <<Log("error", <<"  Issue breakdown:">>)>>
                           \o BreakdownLines(result.issueCountsBySeverity)
                      ELSE <<>>)
             ELSE IF result.issuesCount.v > 0
             THEN <<Log("log", <<"Pentest completed. Found ",
                                 Render(result.issuesCount),
                                 " issue(s), but none at severity \"",
                                 severityThreshold, "\" or higher.">>)>>
             ELSE <<Log("log", <<"Pentest completed with no issues found">>)>>

\* what the catch block writes to the console
PentestFailedReport(error) ==
    <<Log("error", <<"Pentest failed:", error.name>> \o error.message)>>

\* what the action writes to the console once runScan has settled
PentestLogs ==
    IF outcome.kind = "throw" THEN PentestFailedReport(outcome.error)
    ELSE PentestReport(outcome.value, SeverityThreshold(options, env))

\* variant: an error of runScan is reported but the process ends normally
pentestResult_ErrorsReported ==
    /\ pc = "done" /\ entry = "pentest" /\ exitCode = Undefined
    /\ console' = console \o PentestLogs
    /\ IF outcome.kind = "throw" THEN Exit(0)
       ELSE LET result == outcome.value
                issuesAtThreshold ==
                    getIssueCountAtOrAboveThreshold(
                        result.issueCountsBySeverity,
                        SeverityThreshold(options, env))
            IN  IF result.status = Str("completed") /\ issuesAtThreshold > 0
                THEN Exit(1)
                ELSE Exit(0)
    /\ UNCHANGED <<options, entry, params, env, frame, status, outcome, remote,
                   now, timerDue, inflight, history>>

\* variant: any issue at all blocks, whatever its severity
pentestResult_AnyIssue ==
    /\ pc = "done" /\ entry = "pentest" /\ exitCode = Undefined
    /\ console' = console \o PentestLogs
    /\ IF outcome.kind = "throw" THEN Exit(1)
       ELSE LET result == outcome.value IN
            IF result.status = Str("completed") /\ result.issuesCount.v > 0
            THEN Exit(1)
            ELSE Exit(0)
    /\ UNCHANGED <<options, entry, params, env, frame, status, outcome, remote,
                   now, timerDue, inflight, history>>

\* the action, from the settling of runScan to the exit of the process
pentestResult ==
    /\ pc = "done" /\ entry = "pentest" /\ exitCode = Undefined
    /\ console' = console \o PentestLogs
    /\ IF outcome.kind = "throw" THEN Exit(1)
       ELSE LET result == outcome.value
                issuesAtThreshold ==
                    getIssueCountAtOrAboveThreshold(
                        result.issueCountsBySeverity,
                        SeverityThreshold(options, env))
            IN  IF result.status = Str("completed") /\ issuesAtThreshold > 0
                THEN Exit(1)
                ELSE Exit(0)
    /\ UNCHANGED <<options, entry, params, env, frame, status, outcome, remote,
                   now, timerDue, inflight, history>>

(***************************************************************************)
(* Other code of the process assigns to process.env while runScan is       *)
(* suspended on a fetch or on the timer.                                   *)
(***************************************************************************)
EnvChanges(e) ==
    {[e EXCEPT !.PENSAR_API_KEY = Str("rotated-key")],
     [e EXCEPT !.PENSAR_ENVIRONMENT = Str("dev")],
     [e EXCEPT !.PENSAR_API_KEY = Undefined,
               !.PENSAR_ENVIRONMENT = Str("production")]}

SetEnv ==
    /\ entry = "runScan"
    /\ pc \in {"dispatching", "awaiting", "sleeping"}
    /\ \E e \in EnvChanges(env) : e # env /\ env' = e
    /\ UNCHANGED <<console, options, exitCode, entry, params, pc, frame, status,
                   outcome, remote, now, timerDue, inflight, history>>

Next ==
    \/ runScan
    \/ dispatchScan
    \/ DispatchResponse
    \/ pollScanStatus
    \/ getScanStatus
    \/ StatusResponse
    \/ onStatusUpdate
    \/ CheckStatus
    \/ SleepResolve
    \/ Tick
    \/ RemoteAdvance
    \/ CountIssues
    \/ pentest
    \/ pentestResult
    \/ ThresholdFromEnv
    \/ ApiUrl
    \/ EnvironmentFromEnv
    \/ ProjectIdFromEnv
    \/ RepoIdFromEnv
    \/ Gitlab_runScan

Spec == Init /\ [][Next]_vars

ConfigSpec == ConfigInit /\ [][Next]_vars

\* calls of runScan with and without a threshold
ThresholdSpec == ThresholdInit /\ [][Next]_vars

\* runs in which the environment variables may change under runScan
SessionNext == Next \/ SetEnv

SessionSpec == SessionInit /\ [][SessionNext]_vars

\* every step of the client is taken once it can be, time passes, and
\* every request is answered
Fairness ==
    /\ WF_vars(runScan)
    /\ WF_vars(pollScanStatus)
    /\ WF_vars(getScanStatus)
    /\ WF_vars(onStatusUpdate)
    /\ WF_vars(CheckStatus)
    /\ WF_vars(SleepResolve)
    /\ WF_vars(Tick)
    /\ WF_vars(DispatchResponse)
    /\ WF_vars(StatusResponse)

FairSpec == Init /\ [][Next]_vars /\ Fairness

(***************************************************************************)
(* Vocabulary of the properties.                                           *)
(***************************************************************************)
RECURSIVE Sum(_)
Sum(q) == IF q = <<>> THEN 0 ELSE Head(q) + Sum(Tail(q))

Count(q, Test(_)) == Len(SelectSeq(q, Test))

IsStatusRequest(r) == r.method = "GET"
NumStatusRequests == Count(requests, IsStatusRequest)

\* the responses to status requests, in order
StatusResponsesReceived ==
    IF entry = "pollScanStatus" THEN responses
    ELSE IF responses # <<>> THEN Tail(responses) ELSE <<>>

InPoll == frame.fn = "pollScanStatus"
WithObserver == InPoll /\ frame.onStatusUpdate
Done == pc = "done"
HasReturned == outcome.kind = "return"
HasThrown == outcome.kind = "throw"

StatusOf(rec) == IF "status" \in DOMAIN rec THEN rec.status.v ELSE "none"

\* the interval the caller asked for
RequestedIntervalMs ==
    IF params.pollIntervalMs = Undefined THEN 5000 ELSE params.pollIntervalMs.v

MessageContains(err, text) == \E k \in DOMAIN err.message : err.message[k] = text

\* C1: with an observer, the records passed to onStatusUpdate are exactly
\* the records the status requests returned, each once and in the order
\* received; the one record that may be missing is the one just received,
\* and it is passed on before pollScanStatus checks it, returns or throws.
C1_ObserverSeesEveryStatusOnce ==
    WithObserver =>
        /\ pc = "notify" => observed = SubSeq(statuses, 1, Len(statuses) - 1)
        /\ pc # "notify" => observed = statuses

C1_Witness ==
    /\ WithObserver /\ Done /\ HasThrown
    /\ Len(observed) = 3
    /\ StatusOf(observed[1]) = "queued"
    /\ StatusOf(observed[2]) = "running"
    /\ StatusOf(observed[3]) = "failed"

\* C2: a completed record is the last record received, no status request
\* and no delay follows it, and what the call returns is that record.
C2_CompletedStopsPolling ==
    \A i \in DOMAIN statuses :
        StatusOf(statuses[i]) = "completed" =>
            /\ i = Len(statuses)
            /\ NumStatusRequests = i
            /\ Len(delays) = i - 1
            /\ pc \in {"notify", "check", "done"}
            /\ Done => outcome = Returned(statuses[i])

C2_Witness ==
    /\ Done /\ HasReturned
    /\ Len(statuses) = 1 /\ StatusOf(statuses[1]) = "completed"
    /\ outcome.value.issuesCount = Num(2)
    /\ NumStatusRequests = 1 /\ delays = <<>>

\* C3: a failed record is the last record received, no status request
\* follows it, the observer has it exactly once before the call fails, and
\* the error's message contains the record's errorMessage.
C3_FailedStatusThrows ==
    \A i \in DOMAIN statuses :
        StatusOf(statuses[i]) = "failed" =>
            /\ i = Len(statuses)
            /\ NumStatusRequests = i
            /\ pc \in {"notify", "check", "done"}
            /\ (WithObserver /\ pc \in {"check", "done"}) =>
                  Cardinality({j \in DOMAIN observed : observed[j] = statuses[i]}) = 1
            /\ Done =>
                  /\ HasThrown
                  /\ MessageContains(outcome.error, Render(statuses[i].errorMessage))
                  /\ IsString(statuses[i].errorMessage) =>
                        MessageContains(outcome.error, statuses[i].errorMessage.v)

C3_Witness ==
    /\ WithObserver /\ Done /\ HasThrown
    /\ Len(statuses) = 2
    /\ StatusOf(statuses[2]) = "failed"
    /\ statuses[2].errorMessage = Str("Out of memory")
    /\ MessageContains(outcome.error, "Out of memory")

\* C4: a paused record is the last record received, no status request
\* follows it, and the call fails with the pause error, which no failed
\* record produces.
C4_PausedStatusThrows ==
    \A i \in DOMAIN statuses :
        StatusOf(statuses[i]) = "paused" =>
            /\ i = Len(statuses)
            /\ NumStatusRequests = i
            /\ pc \in {"notify", "check", "done"}
            /\ Done =>
                  /\ HasThrown
                  /\ outcome.error.message = <<"Pentest was paused">>
                  /\ \A em \in {Null, Str("Out of memory"), Str("Pentest was paused"), Str("")} :
                        outcome.error # PentestFailedError([errorMessage |-> em])

C4_Witness ==
    /\ Done /\ HasThrown
    /\ Len(statuses) = 2
    /\ StatusOf(statuses[1]) = "running"
    /\ StatusOf(statuses[2]) = "paused"

\* the events of a poll of k non-terminal statuses and a terminal one
RECURSIVE PollPattern(_)
PollPattern(k) ==
    IF k = 0 THEN <<"status_request", "status_response">>
    ELSE <<"status_request", "status_response", "sleep", "wake">> \o PollPattern(k - 1)

IsPollEvent(ev) == ev.e \in {"status_request", "status_response", "sleep", "wake"}
PollEvents == [i \in DOMAIN SelectSeq(events, IsPollEvent) |-> SelectSeq(events, IsPollEvent)[i].e]

\* C5: when the poll returns after k non-terminal statuses and a completed
\* one, it has issued k+1 status requests and slept k times, once between
\* each two consecutive requests and not after the last, for k times the
\* interval in all.
C5_RequestsAndDelays ==
    (InPoll /\ Done /\ HasReturned) =>
        LET k == Len(statuses) - 1 IN
        /\ \A i \in 1..k : StatusOf(statuses[i]) \in {"queued", "running"}
        /\ StatusOf(statuses[k + 1]) = "completed"
        /\ NumStatusRequests = k + 1
        /\ Len(delays) = k
        /\ Sum(delays) = k * RequestedIntervalMs
        /\ PollEvents = PollPattern(k)

C5_Witness ==
    /\ InPoll /\ Done /\ HasReturned
    /\ Len(statuses) = 3
    /\ StatusOf(statuses[1]) = "running" /\ StatusOf(statuses[2]) = "running"
    /\ RequestedIntervalMs = 100
    /\ Sum(delays) = 200

\* an answer to a status request that getScanStatus turns into an error
IsFailedRequest(r) ==
    \/ r.type = "reject"
    \/ r.body = NotJson
    \/ ~r.ok
    \/ ~ScanStatusResponseValid(r.body)

\* the text of the error for a non-success answer: the server's, or the
\* status text when the server gave none
HttpErrorText(r) ==
    IF r.body.error.t = "string" /\ r.body.error.v # "" THEN r.body.error.v
    ELSE r.statusText

\* C6: a status request that fails is the last request: the call has
\* failed with the request's error, nothing was retried, and the observer
\* was not called for it.
C6_FailedRequestEndsPoll ==
    \A i \in DOMAIN StatusResponsesReceived :
        LET r == StatusResponsesReceived[i] IN
        IsFailedRequest(r) =>
            /\ i = Len(StatusResponsesReceived)
            /\ Done /\ HasThrown
            /\ NumStatusRequests = i
            /\ Len(statuses) = i - 1
            /\ WithObserver => Len(observed) = i - 1
            /\ (r.type = "response" /\ r.body # NotJson /\ ~r.ok) =>
                  outcome.error.message =
                      <<"Error getting pentest status: ", HttpErrorText(r)>>
            /\ (r.type = "response" /\ r.body # NotJson /\ r.ok) =>
                  outcome.error.name = "ZodError"

C6_Witness ==
    /\ WithObserver /\ Done /\ HasThrown
    /\ Len(StatusResponsesReceived) = 2
    /\ StatusResponsesReceived[2].type = "response"
    /\ ~StatusResponsesReceived[2].ok
    /\ outcome.error.message = <<"Error getting pentest status: ", "Scan not found">>
    /\ Len(observed) = 1

\* the first n answers were all records with status queued or running
OnlyNonTerminalSoFar(n) ==
    /\ InPoll
    /\ Len(StatusResponsesReceived) = n
    /\ Len(statuses) = n
    /\ \A i \in 1..n : StatusOf(statuses[i]) \in {"queued", "running"}

\* C7: whatever the number n of queued or running answers received so
\* far, the poll has neither returned nor failed, and it goes on to issue
\* status request n+1.
C7_NoIterationLimit ==
    \A n \in 0..(MaxPolls - 1) :
        /\ [](OnlyNonTerminalSoFar(n) => ~Done)
        /\ (OnlyNonTerminalSoFar(n) ~> (NumStatusRequests = n + 1))

C7_Witness ==
    /\ OnlyNonTerminalSoFar(2)
    /\ NumStatusRequests = 3
    /\ pc = "awaiting"

\* C8: if the job ends up in a terminal status for good, the poll ends:
\* it returns a completed record or it fails.
C8_PollTerminates ==
    (<>[](InPoll /\ remote \in {"completed", "failed", "paused"}))
        => <>(Done /\ (HasThrown \/ (HasReturned /\ StatusOf(outcome.value) = "completed")))

C8_Witness ==
    /\ InPoll /\ Done /\ HasReturned
    /\ remote = "completed"
    /\ Len(statuses) = 3

\* C9: every sleep is for the interval the caller asked for, 5000 ms when
\* none was given, and a status request is issued no sooner than that
\* interval after any sleep that began before it.
C9_ConstantDelay ==
    InPoll =>
        /\ \A i \in DOMAIN delays : delays[i] = RequestedIntervalMs
        /\ \A j \in DOMAIN events :
              events[j].e = "status_request" =>
                  \A i \in 1..(j - 1) :
                      events[i].e = "sleep" =>
                          events[j].at - events[i].at >= RequestedIntervalMs

C9_Witness ==
    /\ InPoll
    /\ params.pollIntervalMs = Undefined
    /\ delays = <<5000, 5000>>
    /\ NumStatusRequests = 3

IsRequestEvent(ev) == ev.e \in {"dispatch_request", "status_request"}

\* C10: in a run of runScan at most one request is unanswered, the
\* dispatch request comes first and is answered before anything else, a
\* request is followed by its answer before any other request, and a
\* status request follows either the dispatch answer or a status answer,
\* a sleep and the end of that sleep, the interval later or more.
C10_OneRequestAtATime ==
    entry = "runScan" =>
        /\ inflight \in {0, 1}
        /\ inflight = Count(events, IsRequestEvent) - Len(responses)
        /\ \A j \in DOMAIN events :
            /\ events[j].e = "dispatch_request" => j = 1
            /\ events[j].e = "dispatch_response" => j = 2
            /\ (IsRequestEvent(events[j]) /\ j < Len(events)) =>
                  events[j + 1].e =
                      (IF events[j].e = "dispatch_request"
                       THEN "dispatch_response" ELSE "status_response")
            /\ events[j].e = "status_request" =>
                  \/ j = 3
                  \/ /\ j > 5
                     /\ events[j - 3].e = "status_response"
                     /\ events[j - 2].e = "sleep"
                     /\ events[j - 1].e = "wake"
                     /\ events[j].at - events[j - 2].at >= RequestedIntervalMs

C10_Witness ==
    /\ entry = "runScan"
    /\ NumStatusRequests = 3
    /\ inflight = 1
    /\ events[2].e = "dispatch_response"

IsDispatchRequest(r) == r.method = "POST"

IsJsonResponse(r) == r.type = "response" /\ r.body # NotJson

\* a 2xx answer to the dispatch whose body lacks a string scanId, label or
\* status
IsMalformedDispatch(r) ==
    /\ IsJsonResponse(r) /\ r.ok
    /\ ~(r.body.scanId.t = "string" /\ r.body.label.t = "string"
         /\ r.body.status.t = "string")

\* C11: runScan issues at most one dispatch request; when the answer is a
\* non-success response or a malformed payload, runScan has failed with
\* that error, the dispatch was its only request, and no status request
\* is ever issued.
C11_DispatchFailureIsFinal ==
    entry = "runScan" =>
        /\ Count(requests, IsDispatchRequest) <= 1
        /\ \A i \in DOMAIN responses :
            LET r == responses[i] IN
            (i = 1 /\ ((IsJsonResponse(r) /\ ~r.ok) \/ IsMalformedDispatch(r))) =>
                /\ Len(responses) = 1
                /\ Done /\ HasThrown
                /\ Len(requests) = 1
                /\ NumStatusRequests = 0
                /\ ~r.ok => outcome.error.message =
                               <<"Error dispatching pentest: ", HttpErrorText(r)>>
                /\ r.ok => outcome.error.name = "ZodError"

C11_Witness ==
    /\ entry = "runScan" /\ Done /\ HasThrown
    /\ Len(requests) = 1 /\ Len(responses) = 1
    /\ IsJsonResponse(responses[1]) /\ ~responses[1].ok
    /\ outcome.error.message = <<"Error dispatching pentest: ", "Invalid API key">>

\* C12: a direct call of dispatchScan with neither a projectId nor a
\* repoId fails with the configuration error and has issued no request.
C12_DispatchNeedsIdentifier ==
    (entry = "dispatchScan" /\ pc # "start"
     /\ params.projectId = Undefined /\ params.repoId = Undefined) =>
        /\ Done /\ HasThrown
        /\ requests = <<>> /\ inflight = 0 /\ events = <<>>
        /\ outcome.error.name = "Error"
        /\ outcome.error.message = <<"Either projectId or repoId must be provided. Set PENSAR_PROJECT_ID or run in a GitHub Actions environment (GITHUB_REPOSITORY_ID).">>

C12_Witness ==
    /\ entry = "dispatchScan" /\ Done /\ HasThrown
    /\ params.projectId = Undefined /\ params.repoId = Undefined
    /\ requests = <<>>

\* neither argument names a project or a repository, PENSAR_PROJECT_ID is
\* unset or empty and GITHUB_REPOSITORY_ID is unset or does not begin with
\* a digit
NoIdentifierGiven ==
    /\ params.projectId \in {Undefined, Str("")}
    /\ params.repoId = Undefined
    /\ env.PENSAR_PROJECT_ID \in {Undefined, Str("")}
    /\ \/ env.GITHUB_REPOSITORY_ID = Undefined
       \/ env.GITHUB_REPOSITORY_ID.v = <<>>
       \/ ~IsDigit(env.GITHUB_REPOSITORY_ID.v[1])

ApiKeyGiven ==
    \/ params.apiKey # Undefined
    \/ env.PENSAR_API_KEY \notin {Undefined, Str("")}

\* C13: with no identifier in the arguments or the environment, runScan
\* fails in its own test, before dispatchScan is called, and has issued no
\* request.
C13_NoIdentifierFailsFast ==
    (entry = "runScan" /\ pc # "start" /\ NoIdentifierGiven) =>
        /\ Done /\ HasThrown
        /\ requests = <<>> /\ inflight = 0 /\ events = <<>>
        /\ ApiKeyGiven =>
              outcome.error.message = <<"No project identifier found. Either set PENSAR_PROJECT_ID, pass --project, or run in a GitHub Actions environment (GITHUB_REPOSITORY_ID is auto-detected).">>

C13_Witness ==
    /\ entry = "runScan" /\ Done /\ HasThrown
    /\ NoIdentifierGiven /\ ApiKeyGiven
    /\ env.GITHUB_REPOSITORY_ID = Chars(<<"a", "b", "c">>)
    /\ requests = <<>>

\* the URL each environment selector stands for
UrlOf(selector) ==
    IF selector = Str("dev") THEN "https://josh-pensar-api.pensar.dev"
    ELSE IF selector = Str("staging") THEN "https://staging-api.pensar.dev"
    ELSE "https://api.pensar.dev"

\* C16: the dispatch request carries the apiKey, the identifier and the
\* environment of the arguments when they are given, and those of the
\* environment variables only when they are not.
C16_ArgumentsOverEnvironment ==
    (entry = "runScan" /\ requests # <<>>) =>
        LET q == requests[1]
            key == IF params.apiKey # Undefined
                   THEN params.apiKey ELSE env.PENSAR_API_KEY
            project == IF params.projectId # Undefined
                       THEN params.projectId ELSE env.PENSAR_PROJECT_ID
            repo == IF params.repoId # Undefined
                    THEN params.repoId ELSE getRepoIdEnvVar(env)
            selector == IF params.environment # Undefined
                        THEN params.environment ELSE env.PENSAR_ENVIRONMENT
        IN  /\ q.apiKey = key
            /\ q.url[1] = UrlOf(selector)
            /\ project \notin {Undefined, Str("")} =>
                  (q.body.projectId = project /\ q.body.repoId = Undefined)
            /\ project \in {Undefined, Str("")} =>
                  (q.body.repoId = repo /\ q.body.projectId = Undefined)

C16_Witness ==
    /\ entry = "runScan" /\ requests # <<>>
    /\ params.apiKey = Str("arg-key") /\ env.PENSAR_API_KEY = Str("env-key")
    /\ params.projectId = Str("arg-proj") /\ env.PENSAR_PROJECT_ID = Str("env-proj")
    /\ params.repoId = Num(7) /\ env.GITHUB_REPOSITORY_ID = Chars(<<"4", "2">>)
    /\ params.environment = Str("dev") /\ env.PENSAR_ENVIRONMENT = Str("staging")
    /\ requests[1].apiKey = Str("arg-key")
    /\ requests[1].body.projectId = Str("arg-proj")
    /\ requests[1].url[1] = "https://josh-pensar-api.pensar.dev"

\* C14: when runScan, waiting by default or on request, ends after a
\* terminal status, it has issued one dispatch request and then one status
\* request per record received, the last record being the first terminal
\* one; when it returns, the value is that last record, field for field
\* what the last answer carried.
C14_WaitReturnsFinalRecord ==
    (entry = "runScan" /\ params.wait \in {Undefined, Bool(TRUE)} /\ Done) =>
        LET n == Len(statuses) IN
        /\ HasReturned => n >= 1
        /\ (n >= 1 /\ StatusOf(statuses[n]) \in Terminal) =>
            /\ Len(requests) = 1 + n
            /\ requests[1].method = "POST"
            /\ \A i \in 2..(n + 1) : requests[i].method = "GET"
            /\ \A i \in 1..(n - 1) : StatusOf(statuses[i]) \in {"queued", "running"}
        /\ HasReturned =>
            /\ StatusOf(statuses[n]) = "completed"
            /\ outcome.value = statuses[n]
            /\ LET b == responses[n + 1].body IN
               /\ outcome.value.scanId = b.scanId
               /\ outcome.value.label = b.label
               /\ outcome.value.status = b.status
               /\ outcome.value.startedAt = b.startedAt
               /\ outcome.value.completedAt = b.completedAt
               /\ outcome.value.errorMessage = b.errorMessage
               /\ outcome.value.issuesCount = b.issuesCount
               /\ outcome.value.reportReady = b.reportReady

C14_Witness ==
    /\ entry = "runScan" /\ params.wait = Undefined /\ Done /\ HasReturned
    /\ Len(statuses) = 3 /\ Len(requests) = 4
    /\ outcome.value.issuesCount = Num(2)

\* C15: runScan told not to wait issues the dispatch request and no
\* other, and returns the dispatched scanId and label with status queued,
\* null timestamps and message, no issues and no report, whatever status
\* the dispatch answer carried.
C15_NoWaitReturnsQueued ==
    (entry = "runScan" /\ params.wait = Bool(FALSE)) =>
        /\ Len(requests) <= 1
        /\ NumStatusRequests = 0
        /\ (Done /\ HasReturned) =>
            /\ Len(requests) = 1 /\ requests[1].method = "POST"
            /\ outcome.value.scanId = responses[1].body.scanId
            /\ outcome.value.label = responses[1].body.label
            /\ outcome.value.status = Str("queued")
            /\ outcome.value.startedAt = Null
            /\ outcome.value.completedAt = Null
            /\ outcome.value.errorMessage = Null
            /\ outcome.value.issuesCount = Num(0)
            /\ outcome.value.reportReady = Bool(FALSE)

C15_Witness ==
    /\ entry = "runScan" /\ params.wait = Bool(FALSE) /\ Done /\ HasReturned
    /\ responses[1].body.status = Str("running")
    /\ outcome.value.status = Str("queued")
    /\ outcome.value.scanId = Str("scan-001")

\* the text a non-success answer should put in the error: the server's
\* when the answer carries one, the status text otherwise
ExpectedErrorText(r) ==
    IF r.body # NotJson /\ r.body.error.t = "string" /\ r.body.error.v # ""
    THEN r.body.error.v ELSE r.statusText

\* C17: after any non-success answer to the dispatch request the call has
\* failed with an error whose message carries the server's error text, or
\* the status text when there is none.
C17_DispatchErrorCarriesText ==
    (entry \in {"runScan", "dispatchScan"} /\ responses # <<>>
     /\ responses[1].type = "response" /\ ~responses[1].ok) =>
        /\ Done /\ HasThrown
        /\ MessageContains(outcome.error, ExpectedErrorText(responses[1]))

\* C18: a 2xx dispatch answer without a string scanId, label or status
\* makes the call fail with the schema error, which is not the error of a
\* non-success answer; nothing is returned and no status request follows.
C18_MalformedDispatchRejected ==
    (entry \in {"runScan", "dispatchScan"} /\ responses # <<>>
     /\ IsMalformedDispatch(responses[1])) =>
        /\ Done /\ HasThrown
        /\ outcome.error.name = "ZodError"
        /\ outcome.error.name # DispatchHttpError(
              HttpResponse(FALSE, "Unauthorized", EmptyBody)).name
        /\ outcome.error.message[1] # "Error dispatching pentest: "
        /\ Len(requests) = 1

C18_Witness ==
    /\ entry = "dispatchScan" /\ Done /\ HasThrown
    /\ responses # <<>> /\ IsMalformedDispatch(responses[1])
    /\ responses[1].body.label = Num(1)
    /\ outcome.error.name = "ZodError"

\* the counts of a breakdown, all zero when there is none
CountOf(b, level) == IF b.t = "counts" THEN b[level].v ELSE 0

\* C19: a call of getIssueCountAtOrAboveThreshold returns the sum of the
\* counts of critical alone for threshold critical, of critical and high
\* for high, and so on down to all five levels for info; with an undefined
\* breakdown it returns 0 for every threshold.
C19_CountsAtOrAboveThreshold ==
    (entry = "getIssueCountAtOrAboveThreshold" /\ Done) =>
        LET b == params.issueCountsBySeverity
            t == params.threshold.v
            c == CountOf(b, "critical")
            h == CountOf(b, "high")
            m == CountOf(b, "medium")
            l == CountOf(b, "low")
            i == CountOf(b, "info")
        IN /\ HasReturned
           /\ t = "critical" => outcome.value = Num(c)
           /\ t = "high" => outcome.value = Num(c + h)
           /\ t = "medium" => outcome.value = Num(c + h + m)
           /\ t = "low" => outcome.value = Num(c + h + m + l)
           /\ t = "info" => outcome.value = Num(c + h + m + l + i)
           /\ b = Undefined => outcome.value = Num(0)

C19_Witness ==
    /\ entry = "getIssueCountAtOrAboveThreshold" /\ Done
    /\ params.issueCountsBySeverity = IssueCounts(1, 2, 3, 0, 0)
    /\ params.threshold = Str("high")
    /\ outcome.value = Num(3)

\* the CLI process has exited
Exited == exitCode # Undefined

\* the issues of breakdown b at severity t or higher
AtOrAbove(b, t) ==
    CountOf(b, "critical")
    + (IF t \in {"high", "medium", "low", "info"} THEN CountOf(b, "high") ELSE 0)
    + (IF t \in {"medium", "low", "info"} THEN CountOf(b, "medium") ELSE 0)
    + (IF t \in {"low", "info"} THEN CountOf(b, "low") ELSE 0)
    + (IF t = "info" THEN CountOf(b, "info") ELSE 0)

C20_WitnessBlocked ==
    /\ entry = "pentest" /\ Exited /\ HasReturned
    /\ outcome.value.status = Str("completed")
    /\ options.severity = Undefined
    /\ env.PENSAR_ERROR_SEVERITY_THRESHOLD = Chars(<<"L", "o", "w">>)
    /\ outcome.value.issueCountsBySeverity = IssueCounts(0, 2, 0, 0, 0)
    /\ exitCode = Num(1)

\* the last call of the console
LastLog == console[Len(console)]

\* C21: in a run of the pentest command, once runScan has raised an error
\* the process can only exit with code 1: it has not exited yet and the
\* catch block is about to run, or it has exited with code 1 after
\* reporting the error; it never exits with code 0.
C21_ErrorsExitOne ==
    (entry = "pentest" /\ HasThrown) =>
        /\ pc = "done"
        /\ exitCode \in {Undefined, Num(1)}
        /\ Exited =>
            /\ LastLog.level = "error"
            /\ LastLog.message = <<"Pentest failed:", outcome.error.name>>
                                     \o outcome.error.message

C21_Witness ==
    /\ entry = "pentest" /\ HasThrown /\ Exited
    /\ outcome.error = PentestPausedError
    /\ exitCode = Num(1)

\* cs is the lower-case sequence lower, up to the case of its letters
EqualIgnoringCase(cs, lower) ==
    /\ Len(cs) = Len(lower)
    /\ \A k \in 1..Len(cs) :
          \/ cs[k] = lower[k]
          \/ \E j \in 1..26 : lower[k] = LowerCaseLetters[j] /\ cs[k] = UpperCaseLetters[j]

\* the levels the value of PENSAR_ERROR_SEVERITY_THRESHOLD names, case apart
LevelsNamed(value) ==
    {SEVERITY_LEVELS[k] : k \in {j \in 1..Len(SEVERITY_LEVELS) :
        value.t = "chars" /\ EqualIgnoringCase(value.v, Spell(SEVERITY_LEVELS[j]))}}

\* C22: a call of getErrorSeverityThresholdEnvVar always returns: the level
\* that PENSAR_ERROR_SEVERITY_THRESHOLD names up to the case of its letters,
\* without a warning; critical without a warning when the variable is unset
\* or empty; critical with one warning when it names no level.
C22_ThresholdFromEnvironment ==
    (entry = "getErrorSeverityThresholdEnvVar" /\ Done) =>
        LET value == env.PENSAR_ERROR_SEVERITY_THRESHOLD IN
        /\ HasReturned
        /\ \A level \in LevelsNamed(value) :
              outcome.value = Str(level) /\ console = <<>>
        /\ LevelsNamed(value) = {} =>
              /\ outcome.value = Str("critical")
              /\ IF value = Undefined \/ value = Chars(<<>>)
                 THEN console = <<>>
                 ELSE Len(console) = 1 /\ console[1].level = "warn"

C22_Witness ==
    /\ entry = "getErrorSeverityThresholdEnvVar" /\ Done
    /\ env.PENSAR_ERROR_SEVERITY_THRESHOLD = Chars(<<"M", "e", "D", "i", "u", "M">>)
    /\ outcome.value = Str("medium")
    /\ console = <<>>

C22_WitnessWarned ==
    /\ entry = "getErrorSeverityThresholdEnvVar" /\ Done
    /\ env.PENSAR_ERROR_SEVERITY_THRESHOLD = Chars(<<"h", "i", "g", "h", "e", "r">>)
    /\ outcome.value = Str("critical")
    /\ Len(console) = 1

\* the threshold was left to PENSAR_ERROR_SEVERITY_THRESHOLD, which names
\* no level
ThresholdSubstituted ==
    /\ Falsy(options.severity)
    /\ ~Falsy(env.PENSAR_ERROR_SEVERITY_THRESHOLD)
    /\ LevelsNamed(env.PENSAR_ERROR_SEVERITY_THRESHOLD) = {}

\* C23: when the pentest command has run with a threshold substituted for
\* an unrecognized PENSAR_ERROR_SEVERITY_THRESHOLD and runScan returned a
\* completed record, a record that has issues at or above any level has
\* issues at or above the substituted threshold, and the process has
\* exited with code 1.
C23_SubstitutedThresholdStrictest ==
    (entry = "pentest" /\ Exited /\ HasReturned /\ ThresholdSubstituted
     /\ outcome.value.status = Str("completed")) =>
        \A k \in 1..Len(SEVERITY_LEVELS) :
            AtOrAbove(outcome.value.issueCountsBySeverity, SEVERITY_LEVELS[k]) > 0
                => /\ getIssueCountAtOrAboveThreshold(
                          outcome.value.issueCountsBySeverity,
                          params.errorSeverityThreshold.v) > 0
                   /\ exitCode = Num(1)

\* C24: runScan called without an apiKey while PENSAR_API_KEY is unset or
\* empty has failed with the error of getApiKeyEnvVar as soon as it has
\* begun, and has issued no request and written nothing.
C24_MissingApiKeyFailsFast ==
    (entry = "runScan" /\ params.apiKey = Undefined
     /\ env.PENSAR_API_KEY \in {Undefined, Str("")}) =>
        /\ requests = <<>> /\ inflight = 0
        /\ pc # "start" =>
              /\ Done /\ HasThrown
              /\ outcome.error = Err("Error", <<"PENSAR_API_KEY not configured">>)
              /\ console = <<>>

C24_Witness ==
    /\ entry = "runScan" /\ Done /\ HasThrown
    /\ params.apiKey = Undefined /\ env.PENSAR_API_KEY = Str("")
    /\ params.projectId = Str("arg-proj")
    /\ outcome.error.message = <<"PENSAR_API_KEY not configured">>
    /\ requests = <<>>

\* C25: a call of getApiUrl returns the URL of its selector: the dev URL
\* for dev, the staging URL for staging, the production URL for production
\* and for the absent selector; two selectors have the same URL only if
\* they are the same or are production and absent.
C25_ApiUrlBySelector ==
    (entry = "getApiUrl" /\ Done) =>
        LET x == params.environment IN
        /\ HasReturned
        /\ x = Str("dev") => outcome.value = Str("https://josh-pensar-api.pensar.dev")
        /\ x = Str("staging") => outcome.value = Str("https://staging-api.pensar.dev")
        /\ x \in {Str("production"), Null} =>
              outcome.value = Str("https://api.pensar.dev")
        /\ \A y \in {Str("dev"), Str("staging"), Str("production"), Null} :
              (Str(getApiUrl(y)) = outcome.value)
                  <=> (y = x \/ {x, y} = {Str("production"), Null})

C25_Witness ==
    /\ entry = "getApiUrl" /\ Done
    /\ params.environment = Str("staging")
    /\ outcome.value = Str("https://staging-api.pensar.dev")

\* C26: a call of getEnvironmentEnvVar returns dev, staging, production or
\* null.
C26_EnvironmentIsSelector ==
    (entry = "getEnvironmentEnvVar" /\ Done) =>
        /\ HasReturned
        /\ outcome.value \in {Str("dev"), Str("staging"), Str("production"), Null}

\* the repo id a configuration of runScan resolves to, when it has one
RepoGiven ==
    IF params.repoId # Undefined THEN params.repoId
    ELSE IF env.GITHUB_REPOSITORY_ID = Chars(<<"4", "2">>) THEN Num(42)
    ELSE Undefined

C27_WitnessUnset ==
    /\ entry = "getProjectIdEnvVar" /\ Done /\ HasReturned
    /\ env.PENSAR_PROJECT_ID = Undefined
    /\ outcome.value = Undefined

\* the number a sequence of decimal digits writes
RECURSIVE Decimal(_, _)
Decimal(cs, acc) ==
    IF cs = <<>> THEN acc
    ELSE Decimal(Tail(cs), 10 * acc + (CHOOSE d \in 0..9 : ToString(d) = Head(cs)))

AllDigits(cs) == cs # <<>> /\ \A k \in 1..Len(cs) : \E d \in 0..9 : ToString(d) = cs[k]

\* C28: a call of getRepoIdEnvVar returns the integer that
\* GITHUB_REPOSITORY_ID writes when the value is made of digits, and
\* undefined for every other value, unset included; it does not fail.
C28_RepoIdOnlyWhenNumeric ==
    (entry = "getRepoIdEnvVar" /\ Done) =>
        LET val == env.GITHUB_REPOSITORY_ID IN
        /\ HasReturned
        /\ IF val.t = "chars" /\ AllDigits(val.v)
           THEN outcome.value = Num(Decimal(val.v, 0))
           ELSE outcome.value = Undefined

\* an answer that is no error: a 2xx answer whose body is JSON and passes
\* the schema
AcceptedAnswer(r, Valid(_)) ==
    r.type = "response" /\ r.body # NotJson /\ r.ok /\ Valid(r.body)

\* C30: when runScan has returned a record, its status is queued if wait
\* was false and completed if wait was true or left out, so never running,
\* failed or paused; the dispatch answer and every status answer were
\* accepted and no status received was failed or paused: no failure of the
\* dispatch or of the polling has become a returned record.
C30_ReturnedRecordStatus ==
    (entry \in {"runScan", "pentest"} /\ Done /\ HasReturned) =>
        /\ params.wait = Bool(FALSE) => outcome.value.status = Str("queued")
        /\ params.wait \in {Undefined, Bool(TRUE)} =>
              outcome.value.status = Str("completed")
        /\ outcome.value.status \notin {Str("running"), Str("failed"), Str("paused")}
        /\ responses # <<>>
        /\ AcceptedAnswer(responses[1], DispatchScanResponseValid)
        /\ \A k \in DOMAIN StatusResponsesReceived :
              AcceptedAnswer(StatusResponsesReceived[k], ScanStatusResponseValid)
        /\ \A k \in DOMAIN statuses : StatusOf(statuses[k]) \notin {"failed", "paused"}

C30_Witness ==
    /\ entry = "runScan" /\ params.wait = Bool(TRUE) /\ Done /\ HasReturned
    /\ Len(statuses) = 3
    /\ StatusOf(statuses[2]) = "running"
    /\ outcome.value.status = Str("completed")

C30_WitnessQueued ==
    /\ entry = "runScan" /\ params.wait = Bool(FALSE) /\ Done /\ HasReturned
    /\ responses[1].body.status = Str("running")
    /\ outcome.value.status = Str("queued")
    /\ console # <<>>

C30_WitnessPaused ==
    /\ entry = "runScan" /\ Done /\ HasThrown
    /\ statuses # <<>> /\ StatusOf(statuses[Len(statuses)]) = "paused"

\* C29: when Gitlab.runScan has ended, process.exit was called with 1 if
\* the scan raised an error or was found to have issues, and was not called
\* at all otherwise, so not when the scan completed with no issue.
C29_GitlabExitCode ==
    (entry = "Gitlab.runScan" /\ Done) =>
        IF frame.caught # Undefined THEN exitCode = Num(1)
        ELSE exitCode = Undefined

\* a 2xx answer to a status request whose status is none of the five of
\* the enum, or that lacks a required field
IsMalformedStatus(r) ==
    /\ IsJsonResponse(r) /\ r.ok
    /\ \/ r.body.status.t = "string"
          /\ r.body.status.v \notin {"queued", "running", "completed", "failed", "paused"}
       \/ \E f \in RequiredStatusFields : r.body[f] = Undefined

\* C31: a status answer with a status outside the enum or without a
\* required field ends the poll with the schema error: it is the last
\* answer, its request the last request, no delay follows it, it is not
\* among the status records and it was not passed to the observer.
C31_MalformedStatusRejected ==
    \A k \in DOMAIN StatusResponsesReceived :
        LET r == StatusResponsesReceived[k] IN
        IsMalformedStatus(r) =>
            /\ Done /\ HasThrown
            /\ outcome.error.name = "ZodError"
            /\ k = Len(StatusResponsesReceived)
            /\ NumStatusRequests = k
            /\ Len(delays) = k - 1
            /\ Len(statuses) = k - 1
            /\ \A j \in DOMAIN statuses : statuses[j] # ScanStatusParse(r.body)
            /\ Len(observed) <= k - 1
            /\ \A j \in DOMAIN observed : observed[j] # ScanStatusParse(r.body)

C31_Witness ==
    /\ WithObserver /\ Done /\ HasThrown
    /\ Len(responses) = 2 /\ IsMalformedStatus(responses[2])
    /\ responses[2].body.status = Str("cancelled")
    /\ Len(observed) = 1

C31_WitnessMissingField ==
    /\ entry = "runScan" /\ Done /\ HasThrown
    /\ Len(responses) = 3 /\ IsMalformedStatus(responses[3])
    /\ responses[3].body.reportReady = Undefined

\* C32: every request of a runScan call carries the API key of the
\* dispatch request and goes to its base URL, and every status request
\* names the scanId of the dispatch answer, whatever is assigned to the
\* environment variables after the call began.
C32_OneConfigurationPerRun ==
    entry = "runScan" =>
        \A i \in DOMAIN requests :
            /\ requests[i].apiKey = requests[1].apiKey
            /\ requests[i].url[1] = requests[1].url[1]
            /\ i >= 2 =>
                /\ requests[i].method = "GET"
                /\ requests[i].url[2] = "/ci/status/"
                /\ requests[i].url[3] = responses[1].body.scanId.v

C32_Witness ==
    /\ entry = "runScan" /\ params.apiKey = Undefined
    /\ params.environment = Undefined
    /\ Len(requests) = 3
    /\ requests[3].apiKey = Str("env-key")
    /\ requests[3].url[1] = "https://staging-api.pensar.dev"
    /\ requests[3].url[3] = "scan-002"
    /\ env.PENSAR_API_KEY = Undefined
    /\ env.PENSAR_ENVIRONMENT = Str("production")

\* the project id a call provides: the argument, or for runScan the
\* environment variable when the argument is left out
ProjectProvided ==
    IF entry = "dispatchScan" \/ params.projectId # Undefined
    THEN params.projectId ELSE env.PENSAR_PROJECT_ID

\* a field JSON.stringify writes into the body
InBody(x) == x # Undefined

\* C33: the body of every dispatch request has projectId or repoId and
\* not both: a non-empty projectId when a project id is provided, a
\* non-zero number as repoId otherwise.
C33_OneIdentifierInBody ==
    \A i \in DOMAIN requests :
        requests[i].method = "POST" =>
            LET b == requests[i].body IN
            /\ InBody(b.projectId) # InBody(b.repoId)
            /\ IF ProjectProvided \notin {Undefined, Str("")}
               THEN b.projectId = ProjectProvided
               ELSE b.repoId.t = "number" /\ b.repoId.v # 0

C33_Witness ==
    /\ entry = "dispatchScan" /\ requests # <<>>
    /\ params.projectId = Str("proj-1") /\ params.repoId = Num(7)
    /\ requests[1].body.projectId = Str("proj-1")
    /\ requests[1].body.repoId = Undefined

C33_WitnessRepo ==
    /\ entry = "runScan" /\ requests # <<>>
    /\ params.projectId = Str("") /\ env.PENSAR_PROJECT_ID = Str("env-proj")
    /\ requests[1].body.projectId = Undefined
    /\ requests[1].body.repoId = Num(42)

\* the console ends with the calls of q
EndsWith(seq, q) ==
    /\ Len(seq) >= Len(q)
    /\ SubSeq(seq, Len(seq) - Len(q) + 1, Len(seq)) = q

\* the pentest command has exited after runScan returned a completed
\* record that counts issues
ExitedWithIssues ==
    /\ entry = "pentest" /\ Exited /\ HasReturned
    /\ outcome.value.status = Str("completed")
    /\ outcome.value.issuesCount.v > 0

C34_WitnessNoIssues ==
    /\ entry = "pentest" /\ Exited /\ HasReturned
    /\ outcome.value.status = Str("completed")
    /\ outcome.value.issuesCount = Num(0)
    /\ LastLog.message = <<"Pentest completed with no issues found">>

\* --severity is given and names no level
SeverityOptionUnrecognized ==
    ~Falsy(options.severity) /\ LevelsNamed(options.severity) = {}

\* C35: once the pentest command has begun, an unrecognized --severity
\* has made it write the error and exit with code 1 with no request
\* issued and runScan not called; an unrecognized
\* PENSAR_ERROR_SEVERITY_THRESHOLD without --severity has made it write a
\* warning, call runScan with threshold critical and, the key and the
\* project being known, issue the dispatch request.
C35_InvalidSeverityOptionAborts ==
    (entry = "pentest" /\ pc # "start") =>
        /\ SeverityOptionUnrecognized =>
              /\ exitCode = Num(1)
              /\ requests = <<>>
              /\ params = NoParams /\ outcome = NoOutcome
              /\ Len(console) = 1 /\ console[1].level = "error"
              /\ console[1].message[1] = "Invalid severity threshold \""
        /\ ThresholdSubstituted =>
              /\ params.errorSeverityThreshold = Str("critical")
              /\ console[1].level = "warn"
              /\ (~Falsy(env.PENSAR_API_KEY) /\ ~Falsy(options.project)) =>
                    /\ requests # <<>> /\ requests[1].method = "POST"
                    /\ exitCode = Num(1) => Done /\ outcome # NoOutcome

C35_Witness ==
    /\ entry = "pentest" /\ Exited
    /\ options.severity = Chars(<<"B", "O", "G", "U", "S">>)
    /\ env.PENSAR_ERROR_SEVERITY_THRESHOLD = Chars(<<"L", "o", "w">>)
    /\ exitCode = Num(1) /\ requests = <<>>

C35_WitnessEnvironment ==
    /\ entry = "pentest" /\ Exited
    /\ options.severity = Undefined
    /\ env.PENSAR_ERROR_SEVERITY_THRESHOLD = Chars(<<"B", "O", "G", "U", "S">>)
    /\ params.errorSeverityThreshold = Str("critical")
    /\ Len(requests) = 3 /\ exitCode = Num(0)

\* the levels less severe than level t
LessSevere(t) ==
    {SEVERITY_LEVELS[k] : k \in {j \in 1..Len(SEVERITY_LEVELS) :
                                    j - 1 > IndexOf(SEVERITY_LEVELS, t)}}

\* the five counts of breakdown b added up
TotalOf(b) ==
    CountOf(b, "critical") + CountOf(b, "high") + CountOf(b, "medium")
    + CountOf(b, "low") + CountOf(b, "info")

\* C36: the number a call of getIssueCountAtOrAboveThreshold has returned
\* for a breakdown of non-negative counts is at most the number the
\* function gives the same breakdown at any less severe threshold, is at
\* most the sum of the five counts, and is that sum at threshold info.
C36_MonotoneInThreshold ==
    (entry = "getIssueCountAtOrAboveThreshold" /\ Done) =>
        LET b == params.issueCountsBySeverity
            t == params.threshold.v
        IN /\ HasReturned
           /\ outcome.value.v >= 0
           /\ \A u \in LessSevere(t) :
                 outcome.value.v <= getIssueCountAtOrAboveThreshold(b, u)
           /\ outcome.value.v <= TotalOf(b)
           /\ t = "info" => outcome.value.v = TotalOf(b)

C36_Witness ==
    /\ entry = "getIssueCountAtOrAboveThreshold" /\ Done
    /\ params.issueCountsBySeverity = IssueCounts(1, 2, 3, 0, 0)
    /\ params.threshold = Str("medium")
    /\ outcome.value = Num(6)
    /\ getIssueCountAtOrAboveThreshold(params.issueCountsBySeverity, "low") = 6

\* the arguments of runScan apart from errorSeverityThreshold: what two
\* calls that differ in the threshold only have in common
Arguments == [params EXCEPT !.errorSeverityThreshold = Undefined]

ArgKey ==
    IF Arguments.apiKey # Undefined THEN Arguments.apiKey ELSE env.PENSAR_API_KEY
ArgProject ==
    IF Arguments.projectId # Undefined THEN Arguments.projectId
    ELSE env.PENSAR_PROJECT_ID
ArgRepo ==
    IF Arguments.repoId # Undefined THEN Arguments.repoId ELSE getRepoIdEnvVar(env)
ArgSelector ==
    IF Arguments.environment # Undefined THEN Arguments.environment
    ELSE env.PENSAR_ENVIRONMENT
ArgWaits == Arguments.wait \in {Undefined, Bool(TRUE)}

\* the error of a call that fails before its first request, Undefined when
\* there is none
StartError ==
    IF Arguments.apiKey = Undefined /\ env.PENSAR_API_KEY \in {Undefined, Str("")}
    THEN ApiKeyError
    ELSE IF Falsy(ArgProject) /\ Falsy(ArgRepo) THEN NoIdentifierError
    ELSE Undefined

\* the i-th request of a call, given its arguments and the dispatch answer
ExpectedRequest(i) ==
    IF i = 1
    THEN [method |-> "POST",
          url |-> <<UrlOf(ArgSelector), "/ci/dispatch">>,
          apiKey |-> ArgKey,
          body |-> [projectId |-> IF Falsy(ArgProject) THEN Undefined ELSE ArgProject,
                    repoId |-> IF Falsy(ArgProject) THEN ArgRepo ELSE Undefined,
                    branch |-> Arguments.branch,
                    scanLevel |-> Arguments.scanLevel]]
    ELSE [method |-> "GET",
          url |-> <<UrlOf(ArgSelector), "/ci/status/", responses[1].body.scanId.v>>,
          apiKey |-> ArgKey,
          body |-> Undefined]

\* the n-th answer is one after which the call ends
FinalAnswer(n) ==
    LET r == responses[n] IN
    \/ r.type = "reject" \/ r.body = NotJson \/ ~r.ok
    \/ n = 1 /\ (~DispatchScanResponseValid(r.body) \/ ~ArgWaits)
    \/ n > 1 /\ ~ScanStatusResponseValid(r.body)
    \/ n > 1 /\ r.body.status.v \in Terminal

\* how a call ends, given its arguments and the answers it received
ExpectedOutcome ==
    IF StartError # Undefined THEN Thrown(StartError)
    ELSE LET n == Len(responses)
             r == responses[n]
         IN  IF r.type = "reject" THEN Thrown(FetchRejected)
             ELSE IF r.body = NotJson THEN Thrown(JsonSyntaxError)
             ELSE IF ~r.ok
             THEN Thrown(IF n = 1 THEN DispatchHttpError(r) ELSE StatusHttpError(r))
             ELSE IF n = 1
             THEN (IF DispatchScanResponseValid(r.body)
                   THEN Returned(QueuedStatus(r.body.scanId, r.body.label))
                   ELSE Thrown(ZodError))
             ELSE IF ~ScanStatusResponseValid(r.body) THEN Thrown(ZodError)
             ELSE IF r.body.status = Str("failed")
             THEN Thrown(PentestFailedError(ScanStatusParse(r.body)))
             ELSE IF r.body.status = Str("paused") THEN Thrown(PentestPausedError)
             ELSE Returned(ScanStatusParse(r.body))

\* runScan has been called, directly or by the pentest command
RunScanCalled ==
    /\ pc # "start"
    /\ entry = "runScan" \/ (entry = "pentest" /\ params # NoParams)

\* C37: the requests of a runScan call, the point where it ends and the
\* record or error it ends with are determined by its arguments other than
\* errorSeverityThreshold, the environment variables and the answers
\* received: two calls that differ in the threshold only and receive the
\* same answers issue the same requests and end alike.
C37_ThresholdIgnored ==
    RunScanCalled =>
        LET n == Len(responses) IN
        /\ \A i \in DOMAIN requests : requests[i] = ExpectedRequest(i)
        /\ Len(requests) \in {n, n + 1}
        /\ StartError # Undefined => Done /\ requests = <<>>
        /\ (n >= 1 /\ FinalAnswer(n)) => Len(requests) = n
        /\ Done =>
              /\ StartError = Undefined => (n >= 1 /\ FinalAnswer(n))
              /\ outcome = ExpectedOutcome

C37_Witness ==
    /\ entry = "runScan" /\ Done /\ HasReturned
    /\ params.errorSeverityThreshold = Str("info")
    /\ params.wait = Undefined
    /\ Len(requests) = 3
    /\ outcome.value.issueCountsBySeverity = IssueCounts(1, 0, 2, 0, 0)

C37_WitnessNoThreshold ==
    /\ entry = "runScan" /\ Done /\ HasReturned
    /\ params.errorSeverityThreshold = Undefined
    /\ params.wait = Undefined
    /\ Len(requests) = 3
    /\ outcome.value.issueCountsBySeverity = IssueCounts(1, 0, 2, 0, 0)

====
